---- MODULE Spec2Model ----
(***************************************************************************)
(* Collision and physics core of landstalker-remaster (src/src).          *)
(*                                                                         *)
(* Numbers.  The Python code computes with floats whose values are         *)
(* multiples of 1/16 (MARGIN = 2/16, tolerance 0.0625 = 1/16, GRAVITY 3.0, *)
(* HERO_SPEED 2.0, jump step 2).  Every such value v is represented by the *)
(* integer v * U with U = 16, which is exact for these dyadic values, so   *)
(* 0.0625 is 1, MARGIN is 2, one tile (1.0) is 16 and the 12-tile entity   *)
(* offset is 192.                                                          *)
(*                                                                         *)
(* Calls.  game.py passes a trailing tile_h / camera argument to several   *)
(* collision.py functions; those arguments only feed the screen            *)
(* projection and are left out of the operators below.                     *)
(***************************************************************************)
EXTENDS Integers, Sequences, FiniteSets, TLC

VARIABLES
    pc,            \* name of the operation that produced the current state
    moving_bbox,   \* argument 1 of check_entity_collision_3d
    target_bbox,   \* argument 2 of check_entity_collision_3d
    collision_ret, \* its return value for (moving, target) and (target, moving)
    hero,          \* Game.hero: position, movement state, grabbed entity
    entities,      \* Room.entities: list of entity records
    cells,         \* Room.heightmap.cells: cells[y][x] = [height, walkable]
    move_ret,      \* arguments and result of the last horizontal resolution
    notified,      \* entity passed to on_entity_collids by the last gravity step
    game,          \* Game: room number, previous hero tile, fade state
    warp_ret,      \* what the last check_warp_collision call saw and returned
    place_ret,     \* arguments and result of can_place_entity_at_position
    frame,         \* frames begun, the operations run so far in this one, its time_delta in ms
    script         \* ScriptCommands of entity 1: its fields and the last update's effect

vars == <<pc, moving_bbox, target_bbox, collision_ret,
          hero, entities, cells, move_ret, notified,
          game, warp_ret, place_ret, frame, script>>

predVars == <<moving_bbox, target_bbox, collision_ret>>
gameVars == <<hero, entities, cells, move_ret, notified>>
sceneVars == <<game, warp_ret, place_ret, frame, script>>

----------------------------------------------------------------------------
(* Fixed-point scale and program constants                                 *)

U == 16
MARGIN == 2
ENTITY_OFFSET == 12 * U
BBOX_MARGIN == 2 * U
TOLERANCE == 1
GRAVITY == 3 * U
HERO_SPEED == 2 * U
HERO_HEIGHT == 2
HERO_SIZE == 1
TILE_H == 16

None == 0

Max(a, b) == IF a >= b THEN a ELSE b
Min(a, b) == IF a <= b THEN a ELSE b

----------------------------------------------------------------------------
(* boundingbox.py : BoundingBox(world_pos, height_in_tiles, size_in_tiles) *)

BoundingBox(x, y, z, height_in_tiles, size_in_tiles) ==
    [x |-> x, y |-> y, z |-> z,
     height_in_tiles |-> height_in_tiles, size_in_tiles |-> size_in_tiles]

----------------------------------------------------------------------------
(* collision.py : check_entity_collision_3d                                *)

check_entity_collision_3d_nonstrict(moving, target) ==
    LET me_x == moving.x + MARGIN
        me_y == moving.y + MARGIN
        me_w == moving.size_in_tiles - (MARGIN * 2)
        me_h == moving.size_in_tiles - (MARGIN * 2)
        te_x == target.x + MARGIN - ENTITY_OFFSET
        te_y == target.y + MARGIN - ENTITY_OFFSET
        te_w == target.size_in_tiles - (MARGIN * 2)
        te_h == target.size_in_tiles - (MARGIN * 2)
        xy_collision == /\ me_x <= te_x + te_w
                        /\ me_x + me_w > te_x
                        /\ me_y < te_y + te_h
                        /\ me_y + me_h > te_y
        z_collision == /\ moving.z <= target.z + target.height_in_tiles
                       /\ moving.z + moving.height_in_tiles > target.z
    IN  IF ~xy_collision THEN FALSE ELSE z_collision

check_entity_collision_3d(moving, target) ==
    LET me_x == moving.x + MARGIN
        me_y == moving.y + MARGIN
        me_w == moving.size_in_tiles - (MARGIN * 2)
        me_h == moving.size_in_tiles - (MARGIN * 2)
        te_x == target.x + MARGIN - ENTITY_OFFSET
        te_y == target.y + MARGIN - ENTITY_OFFSET
        te_w == target.size_in_tiles - (MARGIN * 2)
        te_h == target.size_in_tiles - (MARGIN * 2)
        xy_collision == /\ me_x < te_x + te_w
                        /\ me_x + me_w > te_x
                        /\ me_y < te_y + te_h
                        /\ me_y + me_h > te_y
        z_collision == /\ moving.z < target.z + target.height_in_tiles
                       /\ moving.z + moving.height_in_tiles > target.z
    IN  IF ~xy_collision THEN FALSE ELSE z_collision

----------------------------------------------------------------------------
(* hero.py, entity.py, drawable.py : the actors.  An entity is referred to *)
(* by its index in Room.entities; None is index 0.                         *)

Hero(x, y, z) ==
    [x |-> x, y |-> y, z |-> z,
     prev_x |-> x, prev_y |-> y, prev_z |-> z,
     touch_ground |-> FALSE, is_jumping |-> FALSE, current_jump |-> 0,
     is_grabbing |-> FALSE, grabbed_entity |-> None]

Entity(x, y, z, size, height, solid, visible) ==
    [x |-> x, y |-> y, z |-> z,
     prev_x |-> x, prev_y |-> y, prev_z |-> z,
     size_in_tiles |-> size, height_in_tiles |-> height,
     solid |-> solid, visible |-> visible]

\* Hero.bbox = BoundingBox(self._world_pos, self.HEIGHT), mirroring the position
HeroBBox(h) == BoundingBox(h.x, h.y, h.z, HERO_HEIGHT * U, HERO_SIZE * U)

\* Entity.bbox = BoundingBox(self._world_pos, self.height, self.size)
EntityBBox(e) == BoundingBox(e.x, e.y, e.z, e.height_in_tiles, e.size_in_tiles)

\* the indices of a list of n entities, in list order
AllIds(ents) == [i \in 1..Len(ents) |-> i]

\* Hero.grab_entity followed by Hero.update_grabbed_entity_position(tile_h)
update_grabbed_entity_position(h, ents, tile_h) ==
    IF ~(h.is_grabbing /\ h.grabbed_entity # None)
    THEN ents
    ELSE [ents EXCEPT ![h.grabbed_entity] =
              [@ EXCEPT !.x = h.x, !.y = h.y,
                        !.z = h.z + (HERO_HEIGHT * tile_h) * U]]

----------------------------------------------------------------------------
(* heightmap.py                                                            *)

HeightmapCell(height, walkable) == [height |-> height, walkable |-> walkable]

is_walkable(cell) == cell.walkable < 4

get_width(cls) == IF DOMAIN cls = {} THEN 0 ELSE Cardinality(DOMAIN cls[0])
get_height(cls) == Cardinality(DOMAIN cls)

\* Heightmap.get_cell: <<cell>> or <<>> for None
get_cell(cls, x, y) ==
    IF 0 <= y /\ y < get_height(cls) /\ 0 <= x /\ x < get_width(cls)
    THEN <<cls[y][x]>>
    ELSE <<>>

----------------------------------------------------------------------------
(* collision.py : obstacle search and sliding                              *)

SetMin(S) == CHOOSE m \in S : \A n \in S : m <= n

\* first entity of ids, in list order, that collides with the hero's volume
\* placed at (x, y, hero z); None when there is none
check_collids_entity(h, x, y, ents, ids) ==
    LET temp_bbox == BoundingBox(x, y, h.z, HERO_HEIGHT * U, HERO_SIZE * U)
        hits == {k \in 1..Len(ids) :
                    check_entity_collision_3d(temp_bbox, EntityBBox(ents[ids[k]]))}
    IN  IF hits = {} THEN None ELSE ids[SetMin(hits)]

MoveResult(x, y, touched_entity) ==
    [x |-> x, y |-> y, touched_entity |-> touched_entity]

resolve_entity_collision_y_first(h, ents, ids, new_x, new_y) ==
    LET t1 == check_collids_entity(h, new_x, new_y, ents, ids)
        t2 == check_collids_entity(h, new_x, h.y, ents, ids)
        t3 == check_collids_entity(h, h.x, new_y, ents, ids)
    IN  IF t1 = None THEN MoveResult(new_x, new_y, t1)
        ELSE IF t3 = None THEN MoveResult(h.x, new_y, t3)
        ELSE IF t2 = None THEN MoveResult(new_x, h.y, t2)
        ELSE MoveResult(h.x, h.y, t2)

resolve_entity_collision_keep_y(h, ents, ids, new_x, new_y) ==
    LET t1 == check_collids_entity(h, new_x, new_y, ents, ids)
        t2 == check_collids_entity(h, new_x, h.y, ents, ids)
        t3 == check_collids_entity(h, h.x, new_y, ents, ids)
    IN  IF t1 = None THEN MoveResult(new_x, new_y, t1)
        ELSE IF t2 = None THEN MoveResult(new_x, new_y, t2)
        ELSE IF t3 = None THEN MoveResult(h.x, new_y, t3)
        ELSE MoveResult(h.x, h.y, t3)

resolve_entity_collision_first_hit(h, ents, ids, new_x, new_y) ==
    LET t1 == check_collids_entity(h, new_x, new_y, ents, ids)
        t2 == check_collids_entity(h, new_x, h.y, ents, ids)
        t3 == check_collids_entity(h, h.x, new_y, ents, ids)
    IN  IF t1 = None THEN MoveResult(new_x, new_y, t1)
        ELSE IF t2 = None THEN MoveResult(new_x, h.y, t1)
        ELSE IF t3 = None THEN MoveResult(h.x, new_y, t1)
        ELSE MoveResult(h.x, h.y, t1)

resolve_entity_collision(h, ents, ids, new_x, new_y) ==
    LET t1 == check_collids_entity(h, new_x, new_y, ents, ids)
        t2 == check_collids_entity(h, new_x, h.y, ents, ids)
        t3 == check_collids_entity(h, h.x, new_y, ents, ids)
    IN  IF t1 = None THEN MoveResult(new_x, new_y, t1)
        ELSE IF t2 = None THEN MoveResult(new_x, h.y, t2)
        ELSE IF t3 = None THEN MoveResult(h.x, new_y, t3)
        ELSE MoveResult(h.x, h.y, t3)

----------------------------------------------------------------------------
(* collision.py : support search.  Optional[float] is <<>> or <<value>>.   *)

RECURSIVE entity_top_loop(_, _, _, _, _, _, _, _, _)
entity_top_loop(ents, ids, k, check_x, check_y, check_width, check_height, hero_z, highest_top) ==
    IF k > Len(ids) THEN highest_top
    ELSE
      LET entity == ents[ids[k]]
          entity_x == entity.x + MARGIN - ENTITY_OFFSET
          entity_y == entity.y + MARGIN - ENTITY_OFFSET
          entity_w == entity.size_in_tiles - (MARGIN * 2)
          entity_h == entity.size_in_tiles - (MARGIN * 2)
          xy_overlap == /\ check_x < entity_x + entity_w
                        /\ check_x + check_width > entity_x
                        /\ check_y < entity_y + entity_h
                        /\ check_y + check_height > entity_y
          entity_top_tiles == entity.z + entity.height_in_tiles
          next ==
            IF ~entity.solid \/ ~entity.visible THEN highest_top
            ELSE IF ~xy_overlap THEN highest_top
            ELSE IF entity_top_tiles <= hero_z + TOLERANCE
                    /\ (highest_top = <<>> \/ entity_top_tiles > highest_top[1])
                 THEN <<entity_top_tiles>>
                 ELSE highest_top
      IN  entity_top_loop(ents, ids, k + 1, check_x, check_y, check_width,
                          check_height, hero_z, next)

get_entity_top_at_position(ents, ids, check_x, check_y, check_width, check_height, hero_z) ==
    entity_top_loop(ents, ids, 1, check_x, check_y, check_width, check_height,
                    hero_z, <<>>)

Abs(v) == IF v < 0 THEN -v ELSE v

\* state of the loop: [entity |-> index or None, top |-> <<>> or <<value>>]
RECURSIVE standing_on_loop(_, _, _, _, _)
standing_on_loop(h, ents, ids, k, acc) ==
    IF k > Len(ids) THEN acc.entity
    ELSE
      LET entity == ents[ids[k]]
          check_x == h.x + MARGIN
          check_y == h.y + MARGIN
          check_width == HERO_SIZE * U - (MARGIN * 2)
          check_height == HERO_SIZE * U - (MARGIN * 2)
          entity_x == entity.x + MARGIN - ENTITY_OFFSET
          entity_y == entity.y + MARGIN - ENTITY_OFFSET
          entity_w == entity.size_in_tiles - (MARGIN * 2)
          entity_h == entity.size_in_tiles - (MARGIN * 2)
          xy_overlap == /\ check_x < entity_x + entity_w
                        /\ check_x + check_width > entity_x
                        /\ check_y < entity_y + entity_h
                        /\ check_y + check_height > entity_y
          entity_top == entity.z + entity.height_in_tiles
          next ==
            IF ~entity.solid \/ ~entity.visible \/ ids[k] = h.grabbed_entity
            THEN acc
            ELSE IF ~xy_overlap THEN acc
            ELSE IF Abs(h.z - entity_top) <= TOLERANCE
                    /\ (acc.top = <<>> \/ entity_top > acc.top[1])
                 THEN [entity |-> ids[k], top |-> <<entity_top>>]
                 ELSE acc
      IN  standing_on_loop(h, ents, ids, k + 1, next)

get_entity_hero_is_standing_on(h, ents, ids) ==
    standing_on_loop(h, ents, ids, 1, [entity |-> None, top |-> <<>>])

----------------------------------------------------------------------------
(* drawable.py : positions and per-frame deltas                            *)

get_position_delta(d) == <<d.x - d.prev_x, d.y - d.prev_y, d.z - d.prev_z>>

update_prev_position(d) ==
    [d EXCEPT !.prev_x = d.x, !.prev_y = d.y, !.prev_z = d.z]

set_world_pos(d, x, y, z) == [d EXCEPT !.x = x, !.y = y, !.z = z]

----------------------------------------------------------------------------
(* collision.py : update_carried_positions                                 *)

CarryResult(h, ents) == [hero |-> h, entities |-> ents]

\* the hero follows the entity it stands on; tilemap_height is what the call
\* hands to Hero.update_grabbed_entity_position in the place of its tile_h
carry_hero(h, ents, tilemap_height) ==
    LET standing_on == get_entity_hero_is_standing_on(h, ents, AllIds(ents))
    IN  IF standing_on = None THEN CarryResult(h, ents)
        ELSE
          LET d == get_position_delta(ents[standing_on])
          IN  IF d[1] # 0 \/ d[2] # 0 \/ d[3] # 0
              THEN LET h2 == set_world_pos(h, h.x + d[1], h.y + d[2], h.z + d[3])
                   IN  CarryResult(h2,
                           IF h.is_grabbing
                           THEN update_grabbed_entity_position(h2, ents, tilemap_height)
                           ELSE ents)
              ELSE CarryResult(h, ents)

\* [e for e in entities if e is not entity]
OtherIds(ents, i) == SelectSeq(AllIds(ents), LAMBDA j : j # i)

\* the first other entity, in list order, whose top is the height standing_on
first_other_at(ents, i, standing_on) ==
    LET found == {j \in 1..Len(ents) :
                     /\ j # i
                     /\ Abs((ents[j].z + ents[j].height_in_tiles) - standing_on)
                            < TOLERANCE}
    IN  IF found = {} THEN None ELSE SetMin(found)

\* one iteration of the entity loop
carry_entity(ents, i) ==
    LET entity == ents[i]
        check_x == entity.x + MARGIN
        check_y == entity.y + MARGIN
        check_width == entity.size_in_tiles - (MARGIN * 2)
        check_height == entity.size_in_tiles - (MARGIN * 2)
        standing_on == get_entity_top_at_position(ents, OtherIds(ents, i), check_x, check_y, check_width, check_height, entity.z)
    IN  IF standing_on = <<>> THEN ents
        ELSE
          LET other == first_other_at(ents, i, standing_on[1])
          IN  IF other = None THEN ents
              ELSE
                LET d == get_position_delta(ents[other])
                IN  IF d[1] # 0 \/ d[2] # 0 \/ d[3] # 0
                    THEN [ents EXCEPT ![i] =
                             set_world_pos(entity, entity.x + d[1],
                                           entity.y + d[2], entity.z + d[3])]
                    ELSE ents

RECURSIVE carry_entities(_, _)
carry_entities(ents, i) ==
    IF i > Len(ents) THEN ents
    ELSE carry_entities(carry_entity(ents, i), i + 1)

update_carried_positions_keep_prev(h, ents, tile_h, tilemap_height) ==
    LET a == carry_hero(h, ents, tilemap_height)
        moved == carry_entities(a.entities, 1)
    IN  CarryResult(update_prev_position(a.hero), moved)

update_carried_positions_snap(h, ents, tile_h, tilemap_height) ==
    LET standing_on == get_entity_hero_is_standing_on(h, ents, AllIds(ents))
        a == carry_hero(h, ents, tilemap_height)
        h2 == IF standing_on = None THEN a.hero
              ELSE [a.hero EXCEPT !.z = ents[standing_on].z
                                         + ents[standing_on].height_in_tiles]
        moved == carry_entities(a.entities, 1)
    IN  CarryResult(update_prev_position(h2),
                    [i \in 1..Len(moved) |-> update_prev_position(moved[i])])

update_carried_positions(h, ents, tile_h, tilemap_height) ==
    LET a == carry_hero(h, ents, tilemap_height)
        moved == carry_entities(a.entities, 1)
    IN  CarryResult(update_prev_position(a.hero),
                    [i \in 1..Len(moved) |-> update_prev_position(moved[i])])

----------------------------------------------------------------------------
(* boundingbox.py : footprint in the units of game.py                      *)

get_bounding_box(b, tile_h) ==
    [x |-> b.x + BBOX_MARGIN,
     y |-> b.y + BBOX_MARGIN,
     width |-> (tile_h * b.size_in_tiles) - (BBOX_MARGIN * 2),
     height |-> (tile_h * b.size_in_tiles) - (BBOX_MARGIN * 2)]

\* corners 1..4 are the code's corners[0..3]: left, bottom, right, top
get_corners_world(b, tile_h) ==
    LET bb == get_bounding_box(b, tile_h)
    IN  << <<bb.x, bb.y + bb.height>>,
           <<bb.x + bb.width, bb.y + bb.height>>,
           <<bb.x + bb.width, bb.y>>,
           <<bb.x, bb.y>> >>

\* int(c // tile_h)
TileIndex(c, tile_h) == c \div (tile_h * U)

----------------------------------------------------------------------------
(* game.py : Game.apply_gravity                                            *)

Clamp(v, n) == Max(0, Min(v, n - 1))

Max4(a, b, c, d) == Max(Max(a, b), Max(c, d))

\* entities_to_check: the room's entities without the grabbed one
EntitiesToCheck(h, ents) ==
    SelectSeq(AllIds(ents), LAMBDA i : i # h.grabbed_entity)

max_ground_height_left_corner(h, cls, tile_h) ==
    LET corners == get_corners_world(HeroBBox(h), tile_h)
        left_x == Clamp(TileIndex(corners[1][1], tile_h), get_width(cls))
        left_y == Clamp(TileIndex(corners[1][2], tile_h), get_height(cls))
    IN  cls[left_y][left_x].height * tile_h * U

\* max_ground_height: highest terrain under the four clamped footprint corners
max_ground_height(h, cls, tile_h) ==
    LET corners == get_corners_world(HeroBBox(h), tile_h)
        map_width == get_width(cls)
        map_height == get_height(cls)
        left_x == Clamp(TileIndex(corners[1][1], tile_h), map_width)
        left_y == Clamp(TileIndex(corners[1][2], tile_h), map_height)
        bottom_x == Clamp(TileIndex(corners[2][1], tile_h), map_width)
        bottom_y == Clamp(TileIndex(corners[2][2], tile_h), map_height)
        right_x == Clamp(TileIndex(corners[3][1], tile_h), map_width)
        right_y == Clamp(TileIndex(corners[3][2], tile_h), map_height)
        top_x == Clamp(TileIndex(corners[4][1], tile_h), map_width)
        top_y == Clamp(TileIndex(corners[4][2], tile_h), map_height)
    IN  Max4(cls[top_y][top_x].height * tile_h * U,
             cls[bottom_y][bottom_x].height * tile_h * U,
             cls[right_y][right_x].height * tile_h * U,
             cls[left_y][left_x].height * tile_h * U)

gravity_entity_top_below_foot(h, ents, tile_h) ==
    LET hero_bbox == get_bounding_box(HeroBBox(h), tile_h)
    IN  get_entity_top_at_position(ents, EntitiesToCheck(h, ents),
                                   hero_bbox.x, hero_bbox.y,
                                   hero_bbox.width, hero_bbox.height,
                                   h.z - TOLERANCE)

\* entity_top: support offered by the entities under the hero's footprint
gravity_entity_top(h, ents, tile_h) ==
    LET hero_bbox == get_bounding_box(HeroBBox(h), tile_h)
    IN  get_entity_top_at_position(ents, EntitiesToCheck(h, ents),
                                   hero_bbox.x, hero_bbox.y,
                                   hero_bbox.width, hero_bbox.height, h.z)

\* max_surface_height
max_surface_height(h, ents, cls, tile_h) ==
    LET ground == max_ground_height(h, cls, tile_h)
        entity_top == gravity_entity_top(h, ents, tile_h)
    IN  IF entity_top # <<>> THEN Max(ground, entity_top[1]) ELSE ground

GravityResult(h, ents, standing) ==
    [hero |-> h, entities |-> ents, notified |-> standing]

apply_gravity_no_ground_flag(h, ents, cls, tile_h) ==
    IF h.is_jumping THEN GravityResult(h, ents, None)
    ELSE
      LET entity_standing_on ==
              get_entity_hero_is_standing_on(h, ents, EntitiesToCheck(h, ents))
          surface == max_surface_height(h, ents, cls, tile_h)
          height_at_foot == h.z
      IN  IF surface < height_at_foot
          THEN LET fallen == h.z - GRAVITY
                   new_z == IF fallen <= surface THEN surface ELSE fallen
                   h2 == [h EXCEPT !.z = new_z,
                                   !.touch_ground = (fallen <= surface)]
               IN  GravityResult(h2,
                                 update_grabbed_entity_position(h2, ents, tile_h),
                                 entity_standing_on)
          ELSE LET correct_z == surface
                   h2 == [h EXCEPT !.z = correct_z]
               IN  GravityResult(h2,
                                 IF h.z # correct_z
                                 THEN update_grabbed_entity_position(h2, ents, tile_h)
                                 ELSE ents,
                                 entity_standing_on)

apply_gravity_strict_snap(h, ents, cls, tile_h) ==
    IF h.is_jumping THEN GravityResult(h, ents, None)
    ELSE
      LET entity_standing_on ==
              get_entity_hero_is_standing_on(h, ents, EntitiesToCheck(h, ents))
          surface == max_surface_height(h, ents, cls, tile_h)
          height_at_foot == h.z
      IN  IF surface < height_at_foot
          THEN LET fallen == h.z - GRAVITY
                   new_z == IF fallen < surface THEN surface ELSE fallen
                   h2 == [h EXCEPT !.z = new_z,
                                   !.touch_ground = (fallen < surface)]
               IN  GravityResult(h2,
                                 update_grabbed_entity_position(h2, ents, tile_h),
                                 entity_standing_on)
          ELSE LET correct_z == surface
                   h2 == [h EXCEPT !.z = correct_z, !.touch_ground = TRUE]
               IN  GravityResult(h2,
                                 IF h.z # correct_z
                                 THEN update_grabbed_entity_position(h2, ents, tile_h)
                                 ELSE ents,
                                 entity_standing_on)

apply_gravity_while_jumping(h, ents, cls, tile_h) ==
    LET r == apply_gravity_strict_snap([h EXCEPT !.is_jumping = FALSE],
                                       ents, cls, tile_h)
    IN  [r EXCEPT !.hero.is_jumping = h.is_jumping]

apply_gravity_notify_support(h, ents, cls, tile_h) ==
    LET r == apply_gravity_strict_snap(h, ents, cls, tile_h)
        ids == EntitiesToCheck(h, ents)
        top == gravity_entity_top(h, ents, tile_h)
        at_top == {i \in 1..Len(ids) :
                      /\ top # <<>>
                      /\ ents[ids[i]].z + ents[ids[i]].height_in_tiles = top[1]}
    IN  IF h.is_jumping \/ at_top = {} THEN [r EXCEPT !.notified = None]
        ELSE [r EXCEPT !.notified = ids[SetMin(at_top)]]

\* the hero put at new_z; the grabbed entity follows when the Z was written
apply_gravity_moved(h, ents, tile_h, entity_standing_on, new_z, touch_ground, follow) ==
    GravityResult([h EXCEPT !.z = new_z, !.touch_ground = touch_ground],
                  IF follow
                  THEN update_grabbed_entity_position([h EXCEPT !.z = new_z, !.touch_ground = touch_ground], ents, tile_h)
                  ELSE ents,
                  entity_standing_on)

\* the body of apply_gravity after its two look-ups: entity_standing_on and
\* surface are the locals of the code
apply_gravity_on(h, ents, tile_h, entity_standing_on, surface) ==
    IF surface < h.z
    THEN LET fallen == h.z - GRAVITY
             landed == fallen <= surface
         IN  apply_gravity_moved(h, ents, tile_h, entity_standing_on,
                                 IF landed THEN surface ELSE fallen, landed, TRUE)
    ELSE apply_gravity_moved(h, ents, tile_h, entity_standing_on, surface, TRUE, h.z # surface)

apply_gravity(h, ents, cls, tile_h) ==
    IF h.is_jumping THEN GravityResult(h, ents, None)
    ELSE apply_gravity_on(h, ents, tile_h,
                          get_entity_hero_is_standing_on(h, ents, EntitiesToCheck(h, ents)),
                          max_surface_height(h, ents, cls, tile_h))

----------------------------------------------------------------------------
(* game.py : Game.can_move_to and Game.handle_hero_movement                *)

\* check_cells is a sequence of <<cell_x, cell_y>>
can_move_to(h, cls, check_cells, tile_h) ==
    \A k \in 1..Len(check_cells) :
        LET cell == get_cell(cls, check_cells[k][1], check_cells[k][2])
        IN  /\ cell # <<>>
            /\ is_walkable(cell[1])
            /\ ~(cell[1].height * tile_h * U > h.z)

\* the position asked for by the pressed keys after the terrain check:
\* [moved, new_x, new_y]
terrain_move(h, cls, keys, tile_h) ==
    LET corners == get_corners_world(HeroBBox(h), tile_h)
        stay == [moved |-> FALSE, new_x |-> h.x, new_y |-> h.y]
    IN  IF "LEFT" \in keys THEN
            LET next_x == h.x - HERO_SPEED
                new_top_x == TileIndex(corners[4][1] - HERO_SPEED, tile_h)
                new_top_y == TileIndex(corners[4][2], tile_h)
                new_left_x == TileIndex(corners[1][1] - HERO_SPEED, tile_h)
                new_left_y == TileIndex(corners[1][2], tile_h)
            IN  IF next_x > 0
                   /\ can_move_to(h, cls, << <<new_top_x, new_top_y>>,
                                            <<new_left_x, new_left_y>> >>, tile_h)
                THEN [moved |-> TRUE, new_x |-> next_x, new_y |-> h.y]
                ELSE stay
        ELSE IF "RIGHT" \in keys THEN
            LET next_x == h.x + HERO_SPEED
                new_right_x == TileIndex(corners[3][1] + HERO_SPEED, tile_h)
                new_right_y == TileIndex(corners[3][2], tile_h)
                new_bottom_x == TileIndex(corners[2][1] + HERO_SPEED, tile_h)
                new_bottom_y == TileIndex(corners[2][2], tile_h)
            IN  IF new_right_x < get_width(cls)
                   /\ can_move_to(h, cls, << <<new_right_x, new_right_y>>,
                                            <<new_bottom_x, new_bottom_y>> >>, tile_h)
                THEN [moved |-> TRUE, new_x |-> next_x, new_y |-> h.y]
                ELSE stay
        ELSE IF "UP" \in keys THEN
            LET next_y == h.y - HERO_SPEED
                new_top_x == TileIndex(corners[4][1], tile_h)
                new_top_y == TileIndex(corners[4][2] - HERO_SPEED, tile_h)
                new_right_x == TileIndex(corners[3][1], tile_h)
                new_right_y == TileIndex(corners[3][2] - HERO_SPEED, tile_h)
            IN  IF next_y > 0
                   /\ can_move_to(h, cls, << <<new_top_x, new_top_y>>,
                                            <<new_right_x, new_right_y>> >>, tile_h)
                THEN [moved |-> TRUE, new_x |-> h.x, new_y |-> next_y]
                ELSE stay
        ELSE IF "DOWN" \in keys THEN
            LET next_y == h.y + HERO_SPEED
                new_left_x == TileIndex(corners[1][1], tile_h)
                new_left_y == TileIndex(corners[1][2] + HERO_SPEED, tile_h)
                new_bottom_x == TileIndex(corners[2][1], tile_h)
                new_bottom_y == TileIndex(corners[2][2] + HERO_SPEED, tile_h)
            IN  IF new_left_y < get_height(cls)
                   /\ can_move_to(h, cls, << <<new_left_x, new_left_y>>,
                                            <<new_bottom_x, new_bottom_y>> >>, tile_h)
                THEN [moved |-> TRUE, new_x |-> h.x, new_y |-> next_y]
                ELSE stay
        ELSE stay

\* the obstacle list handle_hero_movement hands to the resolver:
\* self.room.entities as it is
movement_obstacles(h, ents) == AllIds(ents)

MoveRecord(moved, h, new_x, new_y, res) ==
    [moved |-> moved, old_x |-> h.x, old_y |-> h.y, z |-> h.z,
     new_x |-> new_x, new_y |-> new_y,
     x |-> res.x, y |-> res.y, touched_entity |-> res.touched_entity]

\* [hero, entities, move_ret] after one call with the given key state
handle_hero_movement(h, ents, cls, keys, lshift, tile_h) ==
    LET want == terrain_move(h, cls, keys, tile_h)
        res == resolve_entity_collision(h, ents, movement_obstacles(h, ents),
                                        want.new_x, want.new_y)
        h2 == [h EXCEPT !.x = res.x, !.y = res.y]
    IN  IF lshift \/ ~want.moved
        THEN [hero |-> h, entities |-> ents,
              move_ret |-> MoveRecord(FALSE, h, h.x, h.y, MoveResult(h.x, h.y, None))]
        ELSE [hero |-> h2,
              entities |-> update_grabbed_entity_position(h2, ents, tile_h),
              move_ret |-> MoveRecord(TRUE, h, want.new_x, want.new_y, res)]

----------------------------------------------------------------------------
(* collision.py : get_position_in_front_of_hero, get_entity_in_front_of_hero *)
(* and can_place_entity_at_position                                        *)

\* int(v) of a Python float: the integer part, truncated toward zero
IntTrunc(v) == IF v >= 0 THEN v \div U ELSE -((-v) \div U)

\* hero.orientation is written by the animation code; it is an argument here
get_position_in_front_of_hero(h, orientation) ==
    IF orientation = "UP" THEN <<h.x, h.y - U>>
    ELSE IF orientation = "DOWN" THEN <<h.x, h.y + U>>
    ELSE IF orientation = "LEFT" THEN <<h.x - U, h.y>>
    ELSE IF orientation = "RIGHT" THEN <<h.x + U, h.y>>
    ELSE <<h.x, h.y>>

\* check_size = 0.8 tiles; 0.8 is not a multiple of 1/16, and every other
\* quantity of the comparison is, so "a + 0.8 > b" is "a + 13/16 > b"
CHECK_SIZE == 13

in_front_hit(h, e, front) ==
    LET entity_x == e.x + MARGIN - ENTITY_OFFSET
        entity_y == e.y + MARGIN - ENTITY_OFFSET
        entity_w == e.size_in_tiles - (MARGIN * 2)
        entity_h == e.size_in_tiles - (MARGIN * 2)
        overlap == /\ front[1] < entity_x + entity_w
                   /\ front[1] + CHECK_SIZE > entity_x
                   /\ front[2] < entity_y + entity_h
                   /\ front[2] + CHECK_SIZE > entity_y
        z_overlap == /\ h.z < e.z + e.height_in_tiles
                     /\ h.z + HERO_HEIGHT * U > e.z
    IN  overlap /\ z_overlap

\* the first visible, not grabbed entity in front of the hero, or None
get_entity_in_front_of_hero(h, ents, orientation) ==
    LET front == get_position_in_front_of_hero(h, orientation)
        hits == {i \in 1..Len(ents) : /\ ents[i].visible
                                      /\ i # h.grabbed_entity
                                      /\ in_front_hit(h, ents[i], front)}
    IN  IF hits = {} THEN None ELSE SetMin(hits)

\* the variant that lets a failed height check be overruled by a free spot
can_place_entity_at_position_skip_height(hero_z, ents, entity, x, y, z, cls) ==
    LET tile_x == IntTrunc(x)
        tile_y == IntTrunc(y)
        cell == get_cell(cls, tile_x, tile_y)
        temp_bbox == BoundingBox(x, y, z, ents[entity].height_in_tiles, ents[entity].size_in_tiles)
    IN  IF tile_x < 0 \/ tile_y < 0 \/ tile_x >= get_width(cls) \/ tile_y >= get_height(cls)
        THEN FALSE
        ELSE IF cell = <<>> \/ ~is_walkable(cell[1])
        THEN FALSE
        ELSE \A other \in 1..Len(ents) :
                \/ other = entity
                \/ ~ents[other].solid
                \/ ~ents[other].visible
                \/ ~check_entity_collision_3d(temp_bbox, EntityBBox(ents[other]))

\* entity is the index of the entity to place; hero_z, x, y, z in tiles
can_place_entity_at_position(hero_z, ents, entity, x, y, z, cls) ==
    LET tile_x == IntTrunc(x)
        tile_y == IntTrunc(y)
        cell == get_cell(cls, tile_x, tile_y)
        temp_bbox == BoundingBox(x, y, z, ents[entity].height_in_tiles, ents[entity].size_in_tiles)
    IN  IF tile_x < 0 \/ tile_y < 0 \/ tile_x >= get_width(cls) \/ tile_y >= get_height(cls)
        THEN FALSE
        ELSE IF cell = <<>> \/ ~is_walkable(cell[1])
        THEN FALSE
        ELSE IF cell[1].height * U - hero_z > 2 * U
        THEN FALSE
        ELSE \A other \in 1..Len(ents) :
                \/ other = entity
                \/ ~ents[other].solid
                \/ ~ents[other].visible
                \/ ~check_entity_collision_3d(temp_bbox, EntityBBox(ents[other]))

----------------------------------------------------------------------------
(* warp.py                                                                 *)

\* x, y, x2, y2, width, height are the integers of the room data
Warp(room1, room2, x, y, x2, y2, width, height) ==
    [room1 |-> room1, room2 |-> room2, x |-> x, y |-> y, x2 |-> x2, y2 |-> y2,
     width |-> width, height |-> height]

\* a // 2 for a float a
FloorHalf(a) == (a \div (2 * U)) * U

\* Warp.check_collision: hero_x .. hero_height are the hero's footprint
check_collision(warp, hero_x, hero_y, hero_width, hero_height, current_room) ==
    LET warp_tile_x == IF warp.room1 = current_room THEN warp.x ELSE warp.x2
        warp_tile_y == IF warp.room1 = current_room THEN warp.y ELSE warp.y2
        hero_center_x_pixels == hero_x + FloorHalf(hero_width)
        hero_center_y_pixels == hero_y + FloorHalf(hero_height)
        hero_tile_x == IntTrunc(hero_center_x_pixels)
        hero_tile_y == IntTrunc(hero_center_y_pixels)
        x_in_range == /\ warp_tile_x - 12 <= hero_tile_x
                      /\ hero_tile_x < warp_tile_x - 12 + warp.width
        y_in_range == /\ warp_tile_y - 12 <= hero_tile_y
                      /\ hero_tile_y < warp_tile_y - 12 + warp.height
    IN  x_in_range /\ y_in_range

\* Warp.get_destination: <<tile_x, tile_y>>
get_destination(warp, current_room) ==
    IF current_room = warp.room1
    THEN <<warp.x2 - 12, warp.y2 - 12>>
    ELSE <<warp.x - 12, warp.y - 12>>

get_target_room(warp, current_room) ==
    IF current_room = warp.room1 THEN warp.room2 ELSE warp.room1

----------------------------------------------------------------------------
(* game.py : fade, warp trigger, fall check, jump, action                  *)

FADE_SPEED == 600
HERO_MAX_JUMP == 24
NO_FALL == 65535

\* the fields of Game next to hero and room; fade_callback is <<>> for None
Game(room_number) ==
    [room_number |-> room_number,
     prev_hero_tile_x |-> -1, prev_hero_tile_y |-> -1,
     fade_alpha |-> 0, fade_mode |-> "None", fade_callback |-> <<>>,
     camera_locked |-> TRUE]

\* the closures handed to start_fade, with the variables they capture
WarpCallback(warp, current_room_number, target_room) ==
    [name |-> "do_warp", warp |-> warp,
     current_room_number |-> current_room_number, target_room |-> target_room]

FallCallback(target) ==
    [name |-> "do_fall_warp", warp |-> Warp(0, 0, 0, 0, 0, 0, 0, 0),
     current_room_number |-> 0, target_room |-> target]

\* the variant that restarts a fade that is already running
start_fade_restart(gm, callback) ==
    [gm EXCEPT !.fade_mode = "out", !.fade_alpha = 0,
               !.fade_callback = <<callback>>, !.camera_locked = TRUE]

start_fade(gm, callback) ==
    IF gm.fade_mode # "None"
    THEN gm
    ELSE [gm EXCEPT !.fade_mode = "out", !.fade_alpha = 0,
                    !.fade_callback = <<callback>>, !.camera_locked = TRUE]

\* what a handler leaves behind: Game fields, hero, room content, notification
Scene(gm, h, ents, cls, n) ==
    [game |-> gm, hero |-> h, entities |-> ents, cells |-> cls, notified |-> n]

release_entity(h) == [h EXCEPT !.is_grabbing = FALSE, !.grabbed_entity = None]

\* Game.check_hero_spawn_on_entity: the hero's Z after the loop
check_hero_spawn_on_entity(h, ents) ==
    IF \E i \in 1..Len(ents) : check_entity_collision_3d(HeroBBox(h), EntityBBox(ents[i]))
    THEN [h EXCEPT !.z = 8 * U]
    ELSE h

\* the variant of do_warp that records the rectangle's tile before the
\* raft-room adjustment
do_warp_stale_tile(gm, h, ents, cls, n, cb, rooms, tile_h) ==
    IF \/ (cb.current_room_number = 168 /\ cb.target_room = 167)
       \/ (cb.current_room_number = 169 /\ cb.target_room = 168)
    THEN Scene(gm, h, ents, cls, n)
    ELSE LET room == rooms[cb.target_room]
             dest == get_destination(cb.warp, cb.target_room)
             dest_cell == get_cell(room.cells, dest[1], dest[2])
             dest_tile_z == IF dest_cell # <<>> THEN dest_cell[1].height ELSE 0
             adjust == cb.target_room = 168 \/ cb.target_room = 169
             dest_tile_x == IF adjust THEN dest[1] - 1 ELSE dest[1]
             dest_tile_y == IF adjust THEN dest[2] + 1 ELSE dest[2]
             h1 == [release_entity(h) EXCEPT !.x = dest_tile_x * tile_h * U,
                                             !.y = dest_tile_y * tile_h * U,
                                             !.z = dest_tile_z * tile_h * U]
             h2 == check_hero_spawn_on_entity(h1, room.entities)
             gm1 == [gm EXCEPT !.room_number = cb.target_room,
                               !.camera_locked = TRUE,
                               !.prev_hero_tile_x = dest[1],
                               !.prev_hero_tile_y = dest[2]]
             standing == get_entity_hero_is_standing_on(h2, room.entities, AllIds(room.entities))
         IN  Scene(gm1, h2, room.entities, room.cells, IF standing # None THEN standing ELSE n)

\* the closure do_warp of check_warp_collision; rooms[k] is what Room.load(k) reads
do_warp(gm, h, ents, cls, n, cb, rooms, tile_h) ==
    IF \/ (cb.current_room_number = 168 /\ cb.target_room = 167)
       \/ (cb.current_room_number = 169 /\ cb.target_room = 168)
    THEN Scene(gm, h, ents, cls, n)
    ELSE LET room == rooms[cb.target_room]
             dest == get_destination(cb.warp, cb.target_room)
             dest_cell == get_cell(room.cells, dest[1], dest[2])
             dest_tile_z == IF dest_cell # <<>> THEN dest_cell[1].height ELSE 0
             adjust == cb.target_room = 168 \/ cb.target_room = 169
             dest_tile_x == IF adjust THEN dest[1] - 1 ELSE dest[1]
             dest_tile_y == IF adjust THEN dest[2] + 1 ELSE dest[2]
             h1 == [release_entity(h) EXCEPT !.x = dest_tile_x * tile_h * U,
                                             !.y = dest_tile_y * tile_h * U,
                                             !.z = dest_tile_z * tile_h * U]
             h2 == check_hero_spawn_on_entity(h1, room.entities)
             gm1 == [gm EXCEPT !.room_number = cb.target_room,
                               !.camera_locked = TRUE,
                               !.prev_hero_tile_x = dest_tile_x,
                               !.prev_hero_tile_y = dest_tile_y]
             standing == get_entity_hero_is_standing_on(h2, room.entities, AllIds(room.entities))
         IN  Scene(gm1, h2, room.entities, room.cells, IF standing # None THEN standing ELSE n)

\* the closure do_fall_warp of check_fall
do_fall_warp(gm, h, ents, cls, n, cb, rooms) ==
    Scene([gm EXCEPT !.room_number = cb.target_room, !.camera_locked = TRUE],
          release_entity(h), rooms[cb.target_room].entities, rooms[cb.target_room].cells, n)

run_callback(gm, h, ents, cls, n, cb, rooms, tile_h) ==
    IF cb.name = "do_warp"
    THEN do_warp(gm, h, ents, cls, n, cb, rooms, tile_h)
    ELSE do_fall_warp(gm, h, ents, cls, n, cb, rooms)

\* the variant that leaves the callback in place after running it
update_fade_keep_callback(gm, h, ents, cls, n, ms, rooms, tile_h) ==
    IF gm.fade_mode = "None" THEN Scene(gm, h, ents, cls, n)
    ELSE IF gm.fade_mode = "out" THEN
        LET alpha == Min(255, (gm.fade_alpha * 1000 + FADE_SPEED * ms) \div 1000)
        IN  IF alpha >= 255
            THEN LET gm1 == [gm EXCEPT !.fade_alpha = 255]
                     s == IF gm.fade_callback # <<>>
                          THEN run_callback(gm1, h, ents, cls, n, gm.fade_callback[1], rooms, tile_h)
                          ELSE Scene(gm1, h, ents, cls, n)
                 IN  [s EXCEPT !.game.fade_mode = "in"]
            ELSE Scene([gm EXCEPT !.fade_alpha = alpha], h, ents, cls, n)
    ELSE
        LET diff == gm.fade_alpha * 1000 - FADE_SPEED * ms
            alpha == Max(0, IF diff >= 0 THEN diff \div 1000 ELSE -((-diff) \div 1000))
        IN  IF alpha <= 0
            THEN Scene([gm EXCEPT !.fade_alpha = 0, !.fade_mode = "None"], h, ents, cls, n)
            ELSE Scene([gm EXCEPT !.fade_alpha = alpha], h, ents, cls, n)

\* Game.update_fade(dt) with dt = ms / 1000
update_fade(gm, h, ents, cls, n, ms, rooms, tile_h) ==
    IF gm.fade_mode = "None" THEN Scene(gm, h, ents, cls, n)
    ELSE IF gm.fade_mode = "out" THEN
        LET alpha == Min(255, (gm.fade_alpha * 1000 + FADE_SPEED * ms) \div 1000)
        IN  IF alpha >= 255
            THEN LET gm1 == [gm EXCEPT !.fade_alpha = 255, !.fade_callback = <<>>]
                     s == IF gm.fade_callback # <<>>
                          THEN run_callback(gm1, h, ents, cls, n, gm.fade_callback[1], rooms, tile_h)
                          ELSE Scene(gm1, h, ents, cls, n)
                 IN  [s EXCEPT !.game.fade_mode = "in"]
            ELSE Scene([gm EXCEPT !.fade_alpha = alpha], h, ents, cls, n)
    ELSE
        LET diff == gm.fade_alpha * 1000 - FADE_SPEED * ms
            alpha == Max(0, IF diff >= 0 THEN diff \div 1000 ELSE -((-diff) \div 1000))
        IN  IF alpha <= 0
            THEN Scene([gm EXCEPT !.fade_alpha = 0, !.fade_mode = "None"], h, ents, cls, n)
            ELSE Scene([gm EXCEPT !.fade_alpha = alpha], h, ents, cls, n)

\* the tile under the centre of the hero's footprint
current_tile(h, tile_h) ==
    LET bb == get_bounding_box(HeroBBox(h), tile_h)
    IN  <<TileIndex(bb.x + FloorHalf(bb.width), tile_h),
          TileIndex(bb.y + FloorHalf(bb.height), tile_h)>>

\* the warps of the room that collide and lead to another room, in list order
colliding_warps(gm, h, warps, tile_h) ==
    LET bb == get_bounding_box(HeroBBox(h), tile_h)
    IN  {k \in 1..Len(warps) :
            /\ check_collision(warps[k], bb.x, bb.y, bb.width, bb.height, gm.room_number)
            /\ get_target_room(warps[k], gm.room_number) # gm.room_number}

\* the variant that looks at the warps on every call
check_warp_collision_every_call(gm, h, warps, tile_h) ==
    LET tile == current_tile(h, tile_h)
        hits == colliding_warps(gm, h, warps, tile_h)
        gm1 == [gm EXCEPT !.prev_hero_tile_x = tile[1], !.prev_hero_tile_y = tile[2]]
    IN  IF hits = {}
        THEN [game |-> gm1, ret |-> FALSE, checked |-> TRUE, tile |-> tile, warp |-> 0]
        ELSE LET w == warps[SetMin(hits)]
             IN  [game |-> start_fade(gm1, WarpCallback(w, gm.room_number, get_target_room(w, gm.room_number))),
                  ret |-> TRUE, checked |-> TRUE, tile |-> tile, warp |-> SetMin(hits)]

\* Game.check_warp_collision: the Game fields after the call, the value
\* returned, whether the warps were looked at, the hero's tile and the index
\* of the warp that fired (0 for none)
check_warp_collision(gm, h, warps, tile_h) ==
    LET tile == current_tile(h, tile_h)
        hits == colliding_warps(gm, h, warps, tile_h)
        gm1 == [gm EXCEPT !.prev_hero_tile_x = tile[1], !.prev_hero_tile_y = tile[2]]
    IN  IF tile[1] = gm.prev_hero_tile_x /\ tile[2] = gm.prev_hero_tile_y
        THEN [game |-> gm, ret |-> FALSE, checked |-> FALSE, tile |-> tile, warp |-> 0]
        ELSE IF hits = {}
        THEN [game |-> gm1, ret |-> FALSE, checked |-> TRUE, tile |-> tile, warp |-> 0]
        ELSE LET w == warps[SetMin(hits)]
             IN  [game |-> start_fade(gm1, WarpCallback(w, gm.room_number, get_target_room(w, gm.room_number))),
                  ret |-> TRUE, checked |-> TRUE, tile |-> tile, warp |-> SetMin(hits)]

\* Game.check_fall: [game, hero]; room holds WarpFallDestination and RoomZEnd
check_fall(gm, h, room, tile_h) ==
    IF h.z = 0 /\ room.WarpFallDestination # NO_FALL
    THEN [game |-> start_fade(gm, FallCallback(room.WarpFallDestination)),
          hero |-> [h EXCEPT !.z = room.RoomZEnd * tile_h * U]]
    ELSE [game |-> gm, hero |-> h]

\* the variant that rises for one frame more
handle_jump_one_more(h, ents, space, tile_h) ==
    LET h1 == IF space /\ h.touch_ground /\ ~h.is_jumping
              THEN [h EXCEPT !.is_jumping = TRUE] ELSE h
    IN  IF ~h1.is_jumping THEN [hero |-> h1, entities |-> ents]
        ELSE IF h1.current_jump <= HERO_MAX_JUMP
        THEN LET h2 == [h1 EXCEPT !.current_jump = @ + 2, !.z = @ + 2 * U]
             IN  [hero |-> h2, entities |-> update_grabbed_entity_position(h2, ents, tile_h)]
        ELSE [hero |-> [h1 EXCEPT !.is_jumping = FALSE, !.current_jump = 0], entities |-> ents]

\* Game.handle_jump: [hero, entities]
handle_jump(h, ents, space, tile_h) ==
    LET h1 == IF space /\ h.touch_ground /\ ~h.is_jumping
              THEN [h EXCEPT !.is_jumping = TRUE] ELSE h
    IN  IF ~h1.is_jumping THEN [hero |-> h1, entities |-> ents]
        ELSE IF h1.current_jump < HERO_MAX_JUMP
        THEN LET h2 == [h1 EXCEPT !.current_jump = @ + 2, !.z = @ + 2 * U]
             IN  [hero |-> h2, entities |-> update_grabbed_entity_position(h2, ents, tile_h)]
        ELSE [hero |-> [h1 EXCEPT !.is_jumping = FALSE, !.current_jump = 0], entities |-> ents]

\* Game.check_action for entities without dialogue that may be picked up:
\* [hero, entities]
check_action(h, ents, cls, a_just_pressed, orientation, tile_h) ==
    LET place == get_position_in_front_of_hero(h, orientation)
        place_tile_x == TileIndex(place[1], tile_h)
        place_tile_y == TileIndex(place[2], tile_h)
        cell == get_cell(cls, place_tile_x, place_tile_y)
        place_z == cell[1].height * tile_h * U
        entity == get_entity_in_front_of_hero(h, ents, orientation)
        grabbing == [h EXCEPT !.is_grabbing = TRUE, !.grabbed_entity = entity]
    IN  IF ~a_just_pressed THEN [hero |-> h, entities |-> ents]
        ELSE IF h.is_grabbing
        THEN IF /\ place_tile_x >= 0 /\ place_tile_y >= 0
                /\ place_tile_x < get_width(cls) /\ place_tile_y < get_height(cls)
                /\ cell # <<>>
                /\ can_place_entity_at_position(h.z, ents, h.grabbed_entity, place[1], place[2], place_z, cls)
             THEN [hero |-> release_entity(h),
                   entities |-> [ents EXCEPT ![h.grabbed_entity] = set_world_pos(@, place[1], place[2], place_z)]]
             ELSE [hero |-> h, entities |-> ents]
        ELSE IF entity # None
        THEN [hero |-> grabbing, entities |-> update_grabbed_entity_position(grabbing, ents, tile_h)]
        ELSE [hero |-> h, entities |-> ents]

----------------------------------------------------------------------------
(* script_commands.py : one step of a movement command                     *)

\* the variant that leaves the carrying to the main loop
cmd_move_relative_no_carry(h, ents, i, move_x, move_y, tile_h, tilemap_height) ==
    CarryResult(h, [ents EXCEPT ![i] = set_world_pos(@, @.x + move_x, @.y + move_y, @.z)])

\* cmd_move_relative while under way: move the entity, then propagate
cmd_move_relative(h, ents, i, move_x, move_y, tile_h, tilemap_height) ==
    update_carried_positions(h, [ents EXCEPT ![i] = set_world_pos(@, @.x + move_x, @.y + move_y, @.z)], tile_h, tilemap_height)

\* cmd_move_up_relative / cmd_move_down_relative while under way
cmd_move_up_relative(ents, i, dz) ==
    [ents EXCEPT ![i] = set_world_pos(@, @.x, @.y, @.z + dz)]

----------------------------------------------------------------------------
(* script_commands.py : ScriptCommands, the script engine of one entity.   *)
(* current_command_index is the 0-based index of the code; the state of a *)
(* command is <<>> for None and <<record>> for the dictionary.             *)

\* one entry {name: params} of a script; param is the parameter its handler reads
Command(name, param) == [name |-> name, param |-> param]

\* ScriptCommands.__init__
ScriptCommands ==
    [is_running |-> FALSE, current_command_index |-> 0, current_command_state |-> <<>>,
     script_commands |-> <<>>, should_loop |-> TRUE,
     waiting_for_condition |-> FALSE, wait_condition_type |-> <<>>]

\* an entity with the two fields of Entity.__init__ the movement commands read
ScriptEntity(x, y, z, speed, orientation) ==
    [x |-> x, y |-> y, z |-> z,
     prev_x |-> x, prev_y |-> y, prev_z |-> z,
     size_in_tiles |-> U, height_in_tiles |-> U,
     solid |-> TRUE, visible |-> TRUE,
     speed |-> speed, orientation |-> orientation]

\* what a command handler leaves behind, and its return value
CommandResult(sh, h, ents, ret) == [sh |-> sh, hero |-> h, entities |-> ents, ret |-> ret]
CommandCarried(sh, r, ret) == [sh |-> sh, hero |-> r.hero, entities |-> r.entities, ret |-> ret]

\* direction_map.get(orientation, (0.0, 0.0))
direction_map(orientation) ==
    CASE orientation = "NE" -> <<0, -1>>
      [] orientation = "SE" -> <<1, 0>>
      [] orientation = "SW" -> <<0, 1>>
      [] orientation = "NW" -> <<-1, 0>>
      [] OTHER -> <<0, 0>>

\* 2 ** (speed - 1) times a distance
speed_multiplied(distance, speed) ==
    IF speed = 0 THEN distance \div 2 ELSE distance * (2 ^ (speed - 1))

\* the dictionary cmd_move_relative builds on its first call; speed / 16
\* tiles a frame is speed units of 1/16 tile
move_relative_state(e, Distance, d) ==
    [target_x |-> e.x + d[1] * speed_multiplied(Distance, e.speed),
     target_y |-> e.y + d[2] * speed_multiplied(Distance, e.speed),
     dx |-> d[1], dy |-> d[2], speed |-> (e.speed * U) \div 16]

\* distance_remaining < state['speed'], distance_remaining the Euclidean norm
distance_remaining_below(dist_x, dist_y, speed) ==
    /\ speed > 0
    /\ dist_x * dist_x + dist_y * dist_y < speed * speed

\* cmd_move_relative once its state exists: snap to the target or step
cmd_move_relative_toward(sh, h, ents, i, state, tile_h, tilemap_height) ==
    IF distance_remaining_below(state.target_x - ents[i].x, state.target_y - ents[i].y, state.speed)
    THEN CommandResult([sh EXCEPT !.current_command_state = <<>>], h,
                       [ents EXCEPT ![i] = set_world_pos(@, state.target_x, state.target_y, @.z)], TRUE)
    ELSE CommandCarried([sh EXCEPT !.current_command_state = <<state>>],
                        cmd_move_relative(h, ents, i, state.dx * state.speed, state.dy * state.speed, tile_h, tilemap_height), FALSE)

\* cmd_move_relative(params), params = {'Distance': Distance}
cmd_move_relative_command(sh, h, ents, i, Distance, tile_h, tilemap_height) ==
    cmd_move_relative_toward(sh, h, ents, i,
                             IF sh.current_command_state = <<>>
                             THEN move_relative_state(ents[i], Distance, direction_map(ents[i].orientation))
                             ELSE sh.current_command_state[1],
                             tile_h, tilemap_height)

\* the dictionary cmd_move_timed builds on its first call
move_timed_state(e, Ticks, d) ==
    [ticks_remaining |-> Ticks, dx |-> d[1], dy |-> d[2], speed |-> (e.speed * U) \div 16]

\* cmd_move_timed after the decrement of ticks_remaining
cmd_move_timed_tick(sh, h, ents, i, state, tile_h, tilemap_height) ==
    IF state.ticks_remaining <= 0
    THEN CommandResult([sh EXCEPT !.current_command_state = <<>>], h, ents, TRUE)
    ELSE CommandCarried([sh EXCEPT !.current_command_state = <<state>>],
                        cmd_move_relative(h, ents, i, state.dx * state.speed, state.dy * state.speed, tile_h, tilemap_height), FALSE)

\* cmd_move_timed(params), params = {'Ticks': Ticks}
cmd_move_timed(sh, h, ents, i, Ticks, tile_h, tilemap_height) ==
    cmd_move_timed_tick(sh, h, ents, i,
                        [(IF sh.current_command_state = <<>>
                          THEN move_timed_state(ents[i], Ticks, direction_map(ents[i].orientation))
                          ELSE sh.current_command_state[1])
                         EXCEPT !.ticks_remaining = @ - 1],
                        tile_h, tilemap_height)

\* cmd_pause after the decrement of ticks_remaining
cmd_pause_tick(sh, h, ents, ticks_remaining) ==
    IF ticks_remaining <= 0
    THEN CommandResult([sh EXCEPT !.current_command_state = <<>>], h, ents, TRUE)
    ELSE CommandResult([sh EXCEPT !.current_command_state = <<[ticks_remaining |-> ticks_remaining]>>], h, ents, FALSE)

\* cmd_pause(params), params = {'Ticks': Ticks}
cmd_pause(sh, h, ents, Ticks) ==
    cmd_pause_tick(sh, h, ents,
                   (IF sh.current_command_state = <<>> THEN Ticks
                    ELSE sh.current_command_state[1].ticks_remaining) - 1)

\* cmd_wait_for_condition(params), params = {'Condition': condition}
cmd_wait_for_condition(sh, h, ents, condition) ==
    IF sh.current_command_state = <<>>
    THEN CommandResult([sh EXCEPT !.waiting_for_condition = TRUE,
                                  !.wait_condition_type = <<condition>>,
                                  !.should_loop = FALSE,
                                  !.current_command_state = <<[condition |-> condition]>>],
                       h, ents, FALSE)
    ELSE CommandResult(sh, h, ents, FALSE)

\* the variant that leaves the command index where it is
trigger_condition_no_advance(sh, condition_type) ==
    IF sh.waiting_for_condition /\ sh.wait_condition_type = <<condition_type>>
    THEN [sh EXCEPT !.waiting_for_condition = FALSE,
                    !.wait_condition_type = <<>>,
                    !.current_command_state = <<>>]
    ELSE sh

\* trigger_condition(condition_type)
trigger_condition(sh, condition_type) ==
    IF sh.waiting_for_condition /\ sh.wait_condition_type = <<condition_type>>
    THEN [sh EXCEPT !.waiting_for_condition = FALSE,
                    !.wait_condition_type = <<>>,
                    !.current_command_state = <<>>,
                    !.current_command_index = @ + 1]
    ELSE sh

\* cmd_goto_command(params), params = {'Command': index}
cmd_goto_command(sh, h, ents, index) ==
    CommandResult([sh EXCEPT !.current_command_index = index - 1], h, ents, TRUE)

\* cmd_loop()
cmd_loop(sh, h, ents) ==
    CommandResult([sh EXCEPT !.current_command_index = -1], h, ents, TRUE)

\* cmd_end()
cmd_end(sh, h, ents) ==
    CommandResult([sh EXCEPT !.is_running = FALSE], h, ents, TRUE)

\* execute_command(command): the handler of the command's name; the stubs
\* and the names without a handler report completion
execute_command(sh, h, ents, i, command, tile_h, tilemap_height) ==
    CASE command.name = "MoveRelative" -> cmd_move_relative_command(sh, h, ents, i, command.param, tile_h, tilemap_height)
      [] command.name = "MoveTimed" -> cmd_move_timed(sh, h, ents, i, command.param, tile_h, tilemap_height)
      [] command.name = "Pause" -> cmd_pause(sh, h, ents, command.param)
      [] command.name = "WaitForCondition" -> cmd_wait_for_condition(sh, h, ents, command.param)
      [] command.name = "GotoCommand" -> cmd_goto_command(sh, h, ents, command.param)
      [] command.name = "Loop" -> cmd_loop(sh, h, ents)
      [] command.name = "End" -> cmd_end(sh, h, ents)
      [] OTHER -> CommandResult(sh, h, ents, TRUE)

\* start_script(script_commands, should_loop)
start_script(sh, script_commands, should_loop) ==
    IF sh.is_running THEN sh
    ELSE [sh EXCEPT !.script_commands = script_commands,
                    !.current_command_index = 0,
                    !.current_command_state = <<>>,
                    !.is_running = TRUE,
                    !.should_loop = should_loop,
                    !.waiting_for_condition = FALSE,
                    !.wait_condition_type = <<>>]

\* what update() leaves behind; executed is <<>> or <<index of the command run>>
UpdateResult(sh, h, ents, executed) == [sh |-> sh, hero |-> h, entities |-> ents, executed |-> executed]

\* the end of update(): advance when the command reported completion
update_advance(r, index) ==
    UpdateResult(IF r.ret THEN [r.sh EXCEPT !.current_command_index = @ + 1, !.current_command_state = <<>>] ELSE r.sh,
                 r.hero, r.entities, <<index>>)

\* the variant that stops at the end of the list whatever should_loop says
update_stop_at_end(sh, h, ents, i, tile_h, tilemap_height) ==
    IF ~sh.is_running \/ Len(sh.script_commands) = 0 THEN UpdateResult(sh, h, ents, <<>>)
    ELSE IF sh.waiting_for_condition THEN UpdateResult(sh, h, ents, <<>>)
    ELSE IF sh.current_command_index >= Len(sh.script_commands)
    THEN UpdateResult([sh EXCEPT !.is_running = FALSE], h, ents, <<>>)
    ELSE update_advance(execute_command(sh, h, ents, i, sh.script_commands[sh.current_command_index + 1], tile_h, tilemap_height),
                        sh.current_command_index)

\* update(), called every frame for the entities whose script is running
update(sh, h, ents, i, tile_h, tilemap_height) ==
    IF ~sh.is_running \/ Len(sh.script_commands) = 0 THEN UpdateResult(sh, h, ents, <<>>)
    ELSE IF sh.waiting_for_condition THEN UpdateResult(sh, h, ents, <<>>)
    ELSE IF sh.current_command_index >= Len(sh.script_commands)
    THEN UpdateResult(IF sh.should_loop
                      THEN [sh EXCEPT !.current_command_index = 0, !.current_command_state = <<>>]
                      ELSE [sh EXCEPT !.is_running = FALSE],
                      h, ents, <<>>)
    ELSE update_advance(execute_command(sh, h, ents, i, sh.script_commands[sh.current_command_index + 1], tile_h, tilemap_height),
                        sh.current_command_index)

----------------------------------------------------------------------------
(* Inputs of the collision predicate                                       *)

MaxSizeTiles == 2
MaxHeightTiles == 2

PredXs == {0, 8, 12, 192, 200, 204}
PredYs == {0, 192, 204}
PredZs == {0, 16}
PredSizes == {k * U : k \in 1..MaxSizeTiles}
PredHeights == {k * U : k \in 1..MaxHeightTiles}

PredBoxes ==
    {BoundingBox(x, y, z, h, s) :
        x \in PredXs, y \in PredYs, z \in PredZs, h \in PredHeights, s \in PredSizes}

NoCollisionRet == [ab |-> FALSE, ba |-> FALSE]

\* a 2x2 room without actors, for the specifications that have no game state
FlatCells(w, h) == [y \in 0..(h - 1) |-> [x \in 0..(w - 1) |-> HeightmapCell(0, 0)]]
IdleHero == Hero(0, 0, 0)
IdleMove == MoveRecord(FALSE, IdleHero, 0, 0, MoveResult(0, 0, None))

IdleGame ==
    /\ hero = IdleHero
    /\ entities = <<>>
    /\ cells = FlatCells(2, 2)
    /\ move_ret = IdleMove
    /\ notified = None

\* the Game fields, warp result, placement record and frame record of the
\* specifications that do not use them
NoWarpRet == [ret |-> FALSE, checked |-> FALSE, tile |-> <<-1, -1>>, warp |-> 0]
NoPlaceRet == [hero_z |-> 0, entity |-> None, x |-> 0, y |-> 0, z |-> 0, called |-> FALSE, ret |-> FALSE]
NoFrame == [n |-> 0, log |-> <<>>, time_delta |-> 0]

\* the script engine before start_script, with what the model records about
\* it: the command the last update executed, whether the last trigger_condition
\* ended a wait, the should_loop argument of the last start_script, whether a
\* WaitForCondition ran since, where the entity was when the current command
\* began and the updates spent in it
ScriptRecord(sh, executed, triggered, loop_arg, waited, start, updates) ==
    [sh |-> sh, executed |-> executed, triggered |-> triggered, loop_arg |-> loop_arg,
     waited |-> waited, start |-> start, updates |-> updates]
NoScript == ScriptRecord(ScriptCommands, <<>>, FALSE, TRUE, FALSE, <<0, 0>>, 0)

\* no warp check, placement or frame recorded yet
IdleSceneRet ==
    /\ warp_ret = NoWarpRet
    /\ place_ret = NoPlaceRet
    /\ script = NoScript
    /\ frame = NoFrame

IdleScene ==
    /\ game = Game(0)
    /\ warp_ret = NoWarpRet
    /\ place_ret = NoPlaceRet
    /\ script = NoScript
    /\ frame = NoFrame

IdlePred ==
    /\ moving_bbox = BoundingBox(0, 0, 0, U, U)
    /\ target_bbox = BoundingBox(0, 0, 0, U, U)
    /\ collision_ret = NoCollisionRet

InitPred ==
    /\ pc = "init"
    /\ moving_bbox \in PredBoxes
    /\ target_bbox \in PredBoxes
    /\ collision_ret = NoCollisionRet
    /\ IdleGame
    /\ IdleScene

(* One evaluation of the predicate in each argument order.                 *)
CheckCollision ==
    /\ pc = "init"
    /\ pc' = "check_entity_collision_3d"
    /\ collision_ret' = [ab |-> check_entity_collision_3d(moving_bbox, target_bbox),
                         ba |-> check_entity_collision_3d(target_bbox, moving_bbox)]
    /\ UNCHANGED <<moving_bbox, target_bbox>>
    /\ UNCHANGED gameVars
    /\ UNCHANGED sceneVars

NextPred == CheckCollision

SpecPred == InitPred /\ [][NextPred]_vars

----------------------------------------------------------------------------
(* Horizontal movement: resolve_entity_collision on drawn inputs, and      *)
(* Game.handle_hero_movement on drawn key states                           *)

\* stored position of an entity whose footprint lies at (x, y) in the hero's frame
Stored(v) == v + ENTITY_OFFSET

\* 3x2 room: columns 0 and 1 are flat; column 2 holds a blocked cell and a
\* raised cell
MoveCells ==
    [y \in 0..1 |->
        [x \in 0..2 |->
            IF x < 2 THEN HeightmapCell(0, 0)
            ELSE IF y = 0 THEN HeightmapCell(0, 4)
            ELSE HeightmapCell(1, 0)]]

MoveStart == 5 * U
MoveStep == 1 * U

MoveFlags == {<<TRUE, TRUE>>, <<FALSE, TRUE>>, <<TRUE, FALSE>>}

MoveOffsets == {<<MoveStep, MoveStep>>, <<MoveStep, 0>>, <<0, MoveStep>>}

MoveFirstEntities ==
    {Entity(Stored(MoveStart + d[1]), Stored(MoveStart + d[2]), 0, s * U, U,
            f[1], f[2]) :
        d \in MoveOffsets, s \in 1..MaxSizeTiles, f \in MoveFlags}
    \cup {Entity(Stored(MoveStart + MoveStep), Stored(MoveStart + MoveStep),
                 HERO_HEIGHT * U, U, U, TRUE, TRUE)}

MoveSecondEntities ==
    {Entity(Stored(MoveStart), Stored(MoveStart + MoveStep), 0, U, U, TRUE, TRUE),
     Entity(Stored(MoveStart), Stored(MoveStart + MoveStep), 0, U, U, FALSE, TRUE),
     Entity(Stored(MoveStart + MoveStep), Stored(MoveStart + MoveStep), 0, U, U,
            TRUE, TRUE),
     Entity(MoveStart + MoveStep, MoveStart + MoveStep, 0, U, U, TRUE, TRUE)}

\* Hero.grab_entity(g) and the repositioning that follows it in check_action
Grabbing(h, ents, g, tile_h) ==
    LET h2 == [h EXCEPT !.is_grabbing = (g # None), !.grabbed_entity = g]
    IN  [hero |-> h2, entities |-> update_grabbed_entity_position(h2, ents, tile_h)]

InitMove ==
    /\ pc = "init"
    /\ IdlePred
    /\ cells = MoveCells
    /\ \E e1 \in MoveFirstEntities, e2 \in MoveSecondEntities, g \in {None, 2} :
          LET start == Grabbing(Hero(MoveStart, MoveStart, 0), <<e1, e2>>, g, TILE_H)
          IN  /\ hero = start.hero
              /\ entities = start.entities
    /\ move_ret = IdleMove
    /\ notified = None
    /\ IdleScene

\* resolve_entity_collision(hero, room.entities, new_x, new_y) on its own
ResolveCall ==
    /\ pc = "init"
    /\ \E new_x \in {hero.x - MoveStep, hero.x, hero.x + MoveStep},
          new_y \in {hero.y - MoveStep, hero.y, hero.y + MoveStep} :
          move_ret' = MoveRecord(TRUE, hero, new_x, new_y,
                          resolve_entity_collision(hero, entities, AllIds(entities),
                                                   new_x, new_y))
    /\ pc' = "resolve_entity_collision"
    /\ UNCHANGED <<hero, entities, cells, notified>>
    /\ UNCHANGED predVars
    /\ UNCHANGED sceneVars

KeyStates == SUBSET {"LEFT", "RIGHT", "UP", "DOWN"}

HandleHeroMovement ==
    /\ pc \in {"init", "handle_hero_movement"}
    /\ \E keys \in KeyStates, lshift \in BOOLEAN :
          LET r == handle_hero_movement(hero, entities, cells, keys, lshift, TILE_H)
          IN  /\ hero' = r.hero
              /\ entities' = r.entities
              /\ move_ret' = r.move_ret
    /\ pc' = "handle_hero_movement"
    /\ UNCHANGED <<cells, notified>>
    /\ UNCHANGED predVars
    /\ UNCHANGED sceneVars

NextMove == ResolveCall \/ HandleHeroMovement

SpecMove == InitMove /\ [][NextMove]_vars

----------------------------------------------------------------------------
(* Gravity in a static room: Game.apply_gravity frame after frame          *)

\* 4x4 grid, every cell height 0 and walkable except cell (2,2) of height 2
Grid4 ==
    [y \in 0..3 |->
        [x \in 0..3 |->
            IF x = 2 /\ y = 2 THEN HeightmapCell(2, 0) ELSE HeightmapCell(0, 0)]]

\* 4x4 grid whose border cells (0,1) and (3,3) are raised
EdgeGrid ==
    [y \in 0..3 |->
        [x \in 0..3 |->
            IF x = 0 /\ y = 1 THEN HeightmapCell(1, 0)
            ELSE IF x = 3 /\ y = 3 THEN HeightmapCell(3, 0)
            ELSE HeightmapCell(0, 0)]]

\* hero positions whose footprint lies left of column 0, and beyond column 3
\* and row 3
OutsidePositions ==
    {<<-(TILE_H * U), TILE_H * U>>, <<4 * TILE_H * U, 4 * TILE_H * U>>}

\* hero positions: footprint centred on cell (2,2); footprint over cells
\* (1,2) and (2,2); footprint inside cell (0,0)
GravityPositions ==
    {<<2 * TILE_H * U, 2 * TILE_H * U>>, <<25 * U, 2 * TILE_H * U>>, <<0, 0>>}

\* a room and the hero's position in it: inside Grid4, outside EdgeGrid
GravityRooms ==
    {<<Grid4, p>> : p \in GravityPositions}
    \cup {<<EdgeGrid, p>> : p \in OutsidePositions}

MaxFallSteps == 3

GravityZs ==
    {0, U, U + 1, 40} \cup {k * GRAVITY : k \in 1..MaxFallSteps}
    \cup {2 * TILE_H * U + d : d \in {0, 1, 24, 2 * U, GRAVITY, GRAVITY + 1, 100}}

\* stored position of an entity lying under the game.py footprint of a hero
\* whose footprint covers cell (2,2)
UnderHero == 2 * TILE_H * U + BBOX_MARGIN + U + ENTITY_OFFSET - MARGIN

GravityFirstEntities ==
    {Entity(UnderHero, UnderHero, z, U, U, f[1], f[2]) :
        z \in {0, 2 * TILE_H * U - U + 1, 2 * TILE_H * U, 2 * TILE_H * U + 2 * U},
        f \in MoveFlags}
    \cup {Entity(0, 0, 0, U, U, TRUE, TRUE)}

GravitySecondEntities ==
    {Entity(UnderHero, UnderHero, 2 * TILE_H * U - U + 2, U, U, TRUE, TRUE),
     Entity(BBOX_MARGIN + U + ENTITY_OFFSET - MARGIN,
            BBOX_MARGIN + U + ENTITY_OFFSET - MARGIN, 0, U, U, TRUE, TRUE),
     Entity(0, 0, 0, U, U, FALSE, TRUE),
     Entity(Stored(2 * TILE_H * U), Stored(2 * TILE_H * U),
            2 * TILE_H * U - U, U, U, TRUE, TRUE)}

InitGravity ==
    /\ pc = "init"
    /\ IdlePred
    /\ \E room \in GravityRooms, z \in GravityZs, j \in BOOLEAN,
          e1 \in GravityFirstEntities, e2 \in GravitySecondEntities,
          g \in {None, 1} :
          LET p == room[2]
              start == Grabbing([Hero(p[1], p[2], z) EXCEPT !.is_jumping = j],
                                <<e1, e2>>, g, TILE_H)
          IN  /\ cells = room[1]
              /\ hero = start.hero
              /\ entities = start.entities
    /\ move_ret = IdleMove
    /\ notified = None
    /\ IdleScene

ApplyGravity ==
    /\ LET r == apply_gravity(hero, entities, cells, TILE_H)
       IN  /\ hero' = r.hero
           /\ entities' = r.entities
           /\ notified' = r.notified
    /\ pc' = "apply_gravity"
    /\ UNCHANGED <<cells, move_ret>>
    /\ UNCHANGED predVars
    /\ UNCHANGED sceneVars

NextGravity == ApplyGravity

SpecGravity == InitGravity /\ [][NextGravity]_vars

\* the main loop calls apply_gravity in every gameplay frame
FairSpecGravity == SpecGravity /\ WF_vars(ApplyGravity)

----------------------------------------------------------------------------
(* Vocabulary of the claims about the predicate                            *)

Checked == pc = "check_entity_collision_3d"

\* [lo1, hi1] and [lo2, hi2] share interior points
StrictOverlap(lo1, hi1, lo2, hi2) == Max(lo1, lo2) < Min(hi1, hi2)

\* b displaced by (d, d) on the ground plane
Shifted(b, d) == [b EXCEPT !.x = b.x + d, !.y = b.y + d]

\* margin-shrunk footprint of b at its own world position
FootLoX(b) == b.x + MARGIN
FootHiX(b) == b.x + b.size_in_tiles - MARGIN
FootLoY(b) == b.y + MARGIN
FootHiY(b) == b.y + b.size_in_tiles - MARGIN

VolumesOverlap(a, b) ==
    /\ StrictOverlap(FootLoX(a), FootHiX(a), FootLoX(b), FootHiX(b))
    /\ StrictOverlap(FootLoY(a), FootHiY(a), FootLoY(b), FootHiY(b))
    /\ StrictOverlap(a.z, a.z + a.height_in_tiles, b.z, b.z + b.height_in_tiles)

UnitBoxAt(x, y, z) == BoundingBox(x, y, z, U, U)

\* C1 (as stated): the predicate is true exactly when the footprints, each at
\* its own world position, and the Z intervals strictly overlap; boxes at
\* (0,0,0) and (0.5,0,0) of size 1 and height 1 collide.
C1_OwnPositionFootprints ==
    Checked =>
        /\ collision_ret.ab = VolumesOverlap(moving_bbox, target_bbox)
        /\ (moving_bbox = UnitBoxAt(0, 0, 0) /\ target_bbox = UnitBoxAt(8, 0, 0))
               => collision_ret.ab

\* C1 (amended): the predicate is true exactly when the moving footprint at
\* its own position and the target footprint displaced by -12 tiles on X and Y
\* strictly overlap and the Z intervals strictly overlap; box A at (0,0,0) and
\* box B at (12.5,12,0), both size 1 and height 1, collide.
C1_TargetOffsetFootprints ==
    Checked =>
        /\ collision_ret.ab =
              VolumesOverlap(moving_bbox, Shifted(target_bbox, -ENTITY_OFFSET))
        /\ (moving_bbox = UnitBoxAt(0, 0, 0)
               /\ target_bbox = UnitBoxAt(ENTITY_OFFSET + 8, ENTITY_OFFSET, 0))
               => collision_ret.ab

C1_Witness ==
    /\ Checked
    /\ moving_bbox = UnitBoxAt(0, 0, 0)
    /\ target_bbox = UnitBoxAt(ENTITY_OFFSET + 8, ENTITY_OFFSET, 0)
    /\ collision_ret.ab

\* C2 (as stated): the predicate gives the same answer in both argument
\* orders, and a volume collides with a volume of identical position and size.
C2_Symmetric ==
    Checked =>
        /\ collision_ret.ab = collision_ret.ba
        /\ (moving_bbox = target_bbox => collision_ret.ab)

\* C2 (amended): the predicate is symmetric up to the 12-tile target offset:
\* check(A, B) = check(B displaced by -12 tiles, A displaced by +12 tiles);
\* a volume collides with a target of identical size and height whose
\* position is displaced by +12 tiles on X and Y.
C2_SymmetricUpToOffset ==
    Checked =>
        /\ collision_ret.ab =
              check_entity_collision_3d(Shifted(target_bbox, -ENTITY_OFFSET),
                                        Shifted(moving_bbox, ENTITY_OFFSET))
        /\ (target_bbox = Shifted(moving_bbox, ENTITY_OFFSET) => collision_ret.ab)

C2_Witness ==
    /\ Checked
    /\ target_bbox = Shifted(moving_bbox, ENTITY_OFFSET)
    /\ collision_ret.ab
    /\ ~collision_ret.ba

\* the footprints the predicate compares: moving at its own position, target
\* displaced by the entity offset
TouchX(m, t) ==
    \/ FootHiX(m) = FootLoX(t) - ENTITY_OFFSET
    \/ FootHiX(t) - ENTITY_OFFSET = FootLoX(m)
TouchY(m, t) ==
    \/ FootHiY(m) = FootLoY(t) - ENTITY_OFFSET
    \/ FootHiY(t) - ENTITY_OFFSET = FootLoY(m)
TouchZ(m, t) ==
    \/ m.z + m.height_in_tiles = t.z
    \/ t.z + t.height_in_tiles = m.z

\* C3: volumes that merely touch (a shared footprint edge on X or on Y, or the
\* top of one at the bottom of the other) do not collide.
C3_TouchingNeverCollides ==
    (Checked /\ (\/ TouchX(moving_bbox, target_bbox)
                 \/ TouchY(moving_bbox, target_bbox)
                 \/ TouchZ(moving_bbox, target_bbox)))
        => ~collision_ret.ab

\* an X edge is shared while the Y and Z extents overlap
C3_Witness ==
    /\ Checked
    /\ FootHiX(target_bbox) - ENTITY_OFFSET = FootLoX(moving_bbox)
    /\ StrictOverlap(FootLoY(moving_bbox), FootHiY(moving_bbox),
                     FootLoY(target_bbox) - ENTITY_OFFSET,
                     FootHiY(target_bbox) - ENTITY_OFFSET)
    /\ StrictOverlap(moving_bbox.z, moving_bbox.z + moving_bbox.height_in_tiles,
                     target_bbox.z, target_bbox.z + target_bbox.height_in_tiles)
    /\ ~collision_ret.ab

----------------------------------------------------------------------------
(* Vocabulary of the claims about the horizontal resolver                  *)

Resolved == pc = "resolve_entity_collision"

\* the hero's volume at (x, y), at the Z of the resolved move
HeroVolumeAt(x, y) == BoundingBox(x, y, move_ret.z, HERO_HEIGHT * U, HERO_SIZE * U)

\* entity i occupies space the hero's volume would occupy at (x, y)
Obstructs(i, x, y) ==
    VolumesOverlap(HeroVolumeAt(x, y), Shifted(EntityBBox(entities[i]), -ENTITY_OFFSET))

Blocked(x, y) == \E i \in 1..Len(entities) : Obstructs(i, x, y)

DirectBlocked == Blocked(move_ret.new_x, move_ret.new_y)
XOnlyBlocked == Blocked(move_ret.new_x, move_ret.old_y)
YOnlyBlocked == Blocked(move_ret.old_x, move_ret.new_y)

\* C4: the resolver returns the first collision-free candidate in the order
\* (new_x, new_y), (new_x, old_y), (old_x, new_y), and the pre-move position
\* when all three candidates collide.
C4_FirstFreeCandidate ==
    Resolved =>
        <<move_ret.x, move_ret.y>> =
            IF ~DirectBlocked THEN <<move_ret.new_x, move_ret.new_y>>
            ELSE IF ~XOnlyBlocked THEN <<move_ret.new_x, move_ret.old_y>>
            ELSE IF ~YOnlyBlocked THEN <<move_ret.old_x, move_ret.new_y>>
            ELSE <<move_ret.old_x, move_ret.old_y>>

\* a diagonal move whose direct and X-only candidates collide and whose Y-only
\* candidate is free
C4_Witness ==
    /\ Resolved
    /\ move_ret.new_x # move_ret.old_x
    /\ move_ret.new_y # move_ret.old_y
    /\ DirectBlocked /\ XOnlyBlocked /\ ~YOnlyBlocked
    /\ move_ret.x = move_ret.old_x
    /\ move_ret.y = move_ret.new_y

SlideExampleMove ==
    /\ move_ret.old_x = 5 * U /\ move_ret.old_y = 5 * U
    /\ move_ret.new_x = 6 * U /\ move_ret.new_y = 6 * U

SolidAt(x, y) ==
    \E i \in 1..Len(entities) :
        /\ entities[i].x = x /\ entities[i].y = y
        /\ entities[i].solid /\ entities[i].visible
        /\ entities[i].z < move_ret.z + HERO_HEIGHT * U
        /\ entities[i].z + entities[i].height_in_tiles > move_ret.z

NothingAt(x, y) == \A i \in 1..Len(entities) : ~(entities[i].x = x /\ entities[i].y = y)

SlideInvariant ==
    (DirectBlocked /\ ~XOnlyBlocked) =>
        /\ move_ret.x = move_ret.new_x
        /\ move_ret.y = move_ret.old_y
        /\ move_ret.touched_entity = None

\* C5 (as stated): slide invariant, and a hero at (5,5) moving to (6,6) with a
\* solid obstacle exactly at (6,6) and nothing at (6,5) gets (6,5) and no
\* touched entity.
C5_SlideObstacleAtTarget ==
    Resolved =>
        /\ SlideInvariant
        /\ (SlideExampleMove /\ SolidAt(6 * U, 6 * U) /\ NothingAt(6 * U, 5 * U)
               /\ ~XOnlyBlocked)
               => /\ move_ret.x = 6 * U /\ move_ret.y = 5 * U
                  /\ move_ret.touched_entity = None

\* C5 (amended): slide invariant, and a hero at (5,5) moving to (6,6) with a
\* solid obstacle whose stored position is (18,18), i.e. whose footprint lies
\* at (6,6) after the 12-tile entity offset, and nothing obstructing (6,5)
\* gets (6,5) and no touched entity.
C5_SlideObstacleAtOffsetTarget ==
    Resolved =>
        /\ SlideInvariant
        /\ (SlideExampleMove /\ SolidAt(Stored(6 * U), Stored(6 * U)) /\ ~XOnlyBlocked)
               => /\ move_ret.x = 6 * U /\ move_ret.y = 5 * U
                  /\ move_ret.touched_entity = None

C5_Witness ==
    /\ Resolved
    /\ SlideExampleMove
    /\ SolidAt(Stored(6 * U), Stored(6 * U))
    /\ DirectBlocked /\ ~XOnlyBlocked
    /\ move_ret.x = 6 * U /\ move_ret.y = 5 * U
    /\ move_ret.touched_entity = None

AllBlocked == DirectBlocked /\ XOnlyBlocked /\ YOnlyBlocked

\* first entity, in list order, obstructing the candidate (x, y)
FirstObstructing(i, x, y) ==
    /\ i \in 1..Len(entities)
    /\ Obstructs(i, x, y)
    /\ \A j \in 1..(i - 1) : ~Obstructs(j, x, y)

\* C6: the returned obstacle is none whenever one of the three tests finds no
\* collision; it is an entity only when all three fail, and then it is the
\* entity found by the Y-only test and the position is the pre-move position.
C6_TouchedOnlyOnFullStop ==
    Resolved =>
        /\ ~AllBlocked => move_ret.touched_entity = None
        /\ AllBlocked =>
              /\ FirstObstructing(move_ret.touched_entity,
                                  move_ret.old_x, move_ret.new_y)
              /\ move_ret.x = move_ret.old_x
              /\ move_ret.y = move_ret.old_y

\* all three candidates collide and the direct test hits another entity than
\* the Y-only test
C6_Witness ==
    /\ Resolved
    /\ AllBlocked
    /\ move_ret.touched_entity # None
    /\ ~FirstObstructing(move_ret.touched_entity, move_ret.new_x, move_ret.new_y)
    /\ FirstObstructing(move_ret.touched_entity, move_ret.old_x, move_ret.new_y)

\* the room's entities that are solid, visible and not grabbed
SolidVisibleNotGrabbed ==
    SelectSeq(AllIds(entities),
              LAMBDA i : entities[i].solid /\ entities[i].visible
                         /\ i # hero.grabbed_entity)

\* C7: an entity that is not solid, not visible or grabbed is never an
\* obstacle: every hero move ends as if only the solid, visible, non-grabbed
\* entities were in the room.
C7_OnlySolidVisibleObstruct ==
    (pc = "handle_hero_movement" /\ move_ret.moved) =>
        LET before == [hero EXCEPT !.x = move_ret.old_x, !.y = move_ret.old_y]
            r == resolve_entity_collision(before, entities, SolidVisibleNotGrabbed,
                                          move_ret.new_x, move_ret.new_y)
        IN  /\ move_ret.x = r.x
            /\ move_ret.y = r.y
            /\ move_ret.touched_entity = r.touched_entity

----------------------------------------------------------------------------
(* Vocabulary of the claims about gravity                                  *)

Surface == max_surface_height(hero, entities, cells, TILE_H)

GravityStep == pc' = "apply_gravity" /\ ~hero.is_jumping

\* C8: a non-jumping hero whose foot Z equals its support surface keeps its Z
\* and is reported grounded by every apply_gravity call.
C8_GravityFixedPoint ==
    [][(GravityStep /\ hero.z = Surface)
          => (hero'.z = hero.z /\ hero'.touch_ground)]_vars

\* the hero started on its support surface and has been through apply_gravity
C8_Witness ==
    /\ pc = "apply_gravity"
    /\ ~hero.is_jumping
    /\ hero.prev_z = hero.z
    /\ hero.z = Surface
    /\ hero.z > 0
    /\ hero.touch_ground

CentredOn22 ==
    /\ cells = Grid4
    /\ hero.x = 2 * TILE_H * U
    /\ hero.y = 2 * TILE_H * U

\* C10 (its scenario): on the 4x4 grid whose cell (2,2) has height 2, a hero
\* centred on (2,2) that started at z = 0 never has a Z above 2.
C10_NeverAboveTwo ==
    (CentredOn22 /\ ~hero.is_jumping /\ hero.prev_z = 0) => hero.z <= 2 * U

\* C10 (its general part): a non-jumping hero ends up grounded on its support
\* surface and stays there, and no call takes it through the surface.
C10_SettlesOnSurface ==
    /\ <>[](hero.is_jumping \/ (hero.touch_ground /\ hero.z = Surface))
    /\ [][(GravityStep /\ hero.z > Surface) => hero'.z >= Surface]_vars
    /\ [][(GravityStep /\ hero.z <= Surface) => hero'.z = Surface]_vars

----------------------------------------------------------------------------
(* Vocabulary of the claims about the supports of gravity                  *)

SetMax(S) == CHOOSE m \in S : \A v \in S : v <= m

\* floor(c / tile) brought into 0..n-1
ClampedTile(c, n) ==
    LET t == c \div (TILE_H * U)
    IN  IF t < 0 THEN 0 ELSE IF t > n - 1 THEN n - 1 ELSE t

\* the hero's footprint as apply_gravity takes it
GravityFootLoX == hero.x + BBOX_MARGIN
GravityFootHiX == hero.x + TILE_H * HERO_SIZE * U - BBOX_MARGIN
GravityFootLoY == hero.y + BBOX_MARGIN
GravityFootHiY == hero.y + TILE_H * HERO_SIZE * U - BBOX_MARGIN

\* the cells under the four corners of that footprint, clamped into the grid
ExpectedCornerCells ==
    {<<ClampedTile(cx, get_width(cells)), ClampedTile(cy, get_height(cells))>> :
        cx \in {GravityFootLoX, GravityFootHiX},
        cy \in {GravityFootLoY, GravityFootHiY}}

\* height of cell c in the Z unit of apply_gravity
CellHeight(c) == cells[c[2]][c[1]].height * TILE_H * U

TerrainSupport == SetMax({CellHeight(c) : c \in ExpectedCornerCells})

\* C11: for every hero position, also with footprint corners outside the grid,
\* apply_gravity takes as terrain support the maximum of the heights of the
\* cells under the four footprint corners, their tile indices clamped into
\* [0, width-1] x [0, height-1] (a lookup outside the grid has no value), and
\* a hero at or below that support with no entity support is put on it.
C11_ClampedCornerSupport ==
    [][(pc' = "apply_gravity") =>
          /\ \A c \in ExpectedCornerCells : /\ c[1] \in 0..(get_width(cells) - 1)
                                            /\ c[2] \in 0..(get_height(cells) - 1)
          /\ max_ground_height(hero, cells, TILE_H) = TerrainSupport
          /\ (/\ ~hero.is_jumping
              /\ gravity_entity_top(hero, entities, TILE_H) = <<>>
              /\ hero.z <= TerrainSupport) => hero'.z = TerrainSupport]_vars

\* a hero whose footprint lies beyond the last column and row has been put on
\* the raised corner cell (3,3)
C11_Witness ==
    /\ pc = "apply_gravity"
    /\ cells = EdgeGrid
    /\ hero.x = 4 * TILE_H * U
    /\ hero.y = 4 * TILE_H * U
    /\ hero.prev_z = 0
    /\ hero.z = 3 * TILE_H * U
    /\ hero.touch_ground

\* entity i's margin-shrunk footprint, displaced by the entity offset
EntityFoot(i) == Shifted(EntityBBox(entities[i]), -ENTITY_OFFSET)

EntityTop(i) == entities[i].z + entities[i].height_in_tiles

UnderGravityFootprint(i) ==
    /\ StrictOverlap(GravityFootLoX, GravityFootHiX,
                     FootLoX(EntityFoot(i)), FootHiX(EntityFoot(i)))
    /\ StrictOverlap(GravityFootLoY, GravityFootHiY,
                     FootLoY(EntityFoot(i)), FootHiY(EntityFoot(i)))

\* the entities that count as support for gravity
SupportCandidates ==
    {i \in 1..Len(entities) :
        /\ entities[i].solid
        /\ entities[i].visible
        /\ i # hero.grabbed_entity
        /\ UnderGravityFootprint(i)
        /\ EntityTop(i) <= hero.z + TOLERANCE}

StandingCandidates ==
    {i \in 1..Len(entities) :
        /\ entities[i].solid
        /\ entities[i].visible
        /\ i # hero.grabbed_entity
        /\ StrictOverlap(FootLoX(HeroBBox(hero)), FootHiX(HeroBBox(hero)),
                         FootLoX(EntityFoot(i)), FootHiX(EntityFoot(i)))
        /\ StrictOverlap(FootLoY(HeroBBox(hero)), FootHiY(HeroBBox(hero)),
                         FootLoY(EntityFoot(i)), FootHiY(EntityFoot(i)))
        /\ Abs(hero.z - EntityTop(i)) <= TOLERANCE}

HighestStanding ==
    {i \in StandingCandidates :
        \A j \in StandingCandidates : EntityTop(j) <= EntityTop(i)}

C14_JumpSuspendsGravity ==
    [][(pc' = "apply_gravity") =>
          /\ hero'.x = hero.x
          /\ hero'.y = hero.y
          /\ hero.is_jumping =>
                 /\ hero'.z = hero.z
                 /\ hero'.touch_ground = hero.touch_ground]_vars

\* a jumping hero above its support surface has been through apply_gravity and
\* is still where it was, not grounded
C14_Witness ==
    /\ pc = "apply_gravity"
    /\ hero.is_jumping
    /\ hero.z > Surface
    /\ hero.z = hero.prev_z
    /\ ~hero.touch_ground

----------------------------------------------------------------------------
(* A frame of moving platforms: entity scripts displace entities, then      *)
(* update_carried_positions closes the frame                                *)

\* the platform under the hero's footprint, its top one tile above the floor
Platform == Entity(Stored(MoveStart), Stored(MoveStart), 0, U, U, TRUE, TRUE)

\* an entity four tiles away whose top is at the platform's height
FarEntities ==
    {Entity(Stored(MoveStart + 4 * U), Stored(MoveStart), 0, U, U, f[1], f[2]) :
        f \in MoveFlags}

\* a crate whose own footprint lies over the platform's compared footprint,
\* resting on the platform's top or two tiles above it
Crates == {Entity(MoveStart, MoveStart, z, U, U, TRUE, TRUE) : z \in {U, 3 * U}}

\* the room's entity list; the crate is entity 3 in both orders
CarryEntityLists ==
    {<<Platform, q, c>> : q \in FarEntities, c \in Crates}
    \cup {<<q, Platform, c>> : q \in FarEntities, c \in Crates}

\* foot Z of the hero: on the platform, 1/16 tile above it, two tiles above it
CarryHeroZs == {U, U + TOLERANCE, 3 * U}

\* displacements an entity script gives an entity within one frame
CarryDeltas == {<<4, 0, 0>>, <<0, 0, TOLERANCE>>, <<0, 0, U>>, <<0, 0, -U>>}

InitCarry ==
    /\ pc = "init"
    /\ IdlePred
    /\ cells = FlatCells(2, 2)
    /\ \E z \in CarryHeroZs, ents \in CarryEntityLists, g \in {None, 3} :
          LET start == Grabbing(Hero(MoveStart, MoveStart, z), ents, g, TILE_H)
          IN  /\ hero = start.hero
              /\ entities = [i \in 1..Len(ents) |->
                                update_prev_position(start.entities[i])]
    /\ move_ret = IdleMove
    /\ notified = None
    /\ IdleScene

\* an entity script moves an entity that has not moved yet in this frame
EntityScriptMove ==
    /\ pc \in {"init", "entity_script"}
    /\ \E i \in 1..Len(entities), d \in CarryDeltas :
          /\ get_position_delta(entities[i]) = <<0, 0, 0>>
          /\ entities' = [entities EXCEPT ![i] =
                             set_world_pos(@, @.x + d[1], @.y + d[2], @.z + d[3])]
    /\ pc' = "entity_script"
    /\ UNCHANGED <<hero, cells, move_ret, notified>>
    /\ UNCHANGED predVars
    /\ UNCHANGED sceneVars

UpdateCarriedPositions ==
    /\ pc \in {"init", "entity_script", "update_carried_positions"}
    /\ LET r == update_carried_positions(hero, entities, TILE_H, TILE_H)
       IN  /\ hero' = r.hero
           /\ entities' = r.entities
    /\ pc' = "update_carried_positions"
    /\ UNCHANGED <<cells, move_ret, notified>>
    /\ UNCHANGED predVars
    /\ UNCHANGED sceneVars

NextCarry == EntityScriptMove \/ UpdateCarriedPositions

SpecCarry == InitCarry /\ [][NextCarry]_vars

----------------------------------------------------------------------------
(* Vocabulary of the claims about the carry propagator                     *)

CarryStep == pc' = "update_carried_positions"

Position(d) == <<d.x, d.y, d.z>>

PrevPosition(d) == <<d.prev_x, d.prev_y, d.prev_z>>

Plus(p, d) == <<p[1] + d[1], p[2] + d[2], p[3] + d[3]>>

AllDeltasZero ==
    /\ get_position_delta(hero) = <<0, 0, 0>>
    /\ \A i \in 1..Len(entities) : get_position_delta(entities[i]) = <<0, 0, 0>>

NoPositionChanges ==
    /\ Position(hero') = Position(hero)
    /\ \A i \in 1..Len(entities) : Position(entities'[i]) = Position(entities[i])

\* C15: carry idempotence: if every actor's per-frame delta is zero when
\* update_carried_positions starts, the call changes no actor's position.
C15_CarryIdempotence ==
    [][(CarryStep /\ AllDeltasZero) => NoPositionChanges]_vars

\* the call has run in a frame without movement, on a hero standing 1/16 tile
\* above the platform it rests on, with a crate resting on that platform
C15_Witness ==
    /\ pc = "update_carried_positions"
    /\ Position(hero) = <<MoveStart, MoveStart, U + TOLERANCE>>
    /\ get_entity_hero_is_standing_on(hero, entities, AllIds(entities)) # None
    /\ \A i \in 1..Len(entities) :
          \/ entities[i] = Platform
          \/ entities[i] \in FarEntities
          \/ entities[i] \in Crates

\* entity i's compared footprint overlaps the hero's footprint
UnderHeroFootprint(h, e) ==
    /\ StrictOverlap(FootLoX(HeroBBox(h)), FootHiX(HeroBBox(h)),
                     FootLoX(Shifted(EntityBBox(e), -ENTITY_OFFSET)),
                     FootHiX(Shifted(EntityBBox(e), -ENTITY_OFFSET)))
    /\ StrictOverlap(FootLoY(HeroBBox(h)), FootHiY(HeroBBox(h)),
                     FootLoY(Shifted(EntityBBox(e), -ENTITY_OFFSET)),
                     FootHiY(Shifted(EntityBBox(e), -ENTITY_OFFSET)))

\* entity e where it was when the frame started
AtFrameStart(e) == set_world_pos(e, e.prev_x, e.prev_y, e.prev_z)

\* at the start of the frame the hero rested on entity i
RestedOn(i) ==
    /\ entities[i].solid
    /\ entities[i].visible
    /\ i # hero.grabbed_entity
    /\ get_position_delta(hero) = <<0, 0, 0>>
    /\ UnderHeroFootprint(hero, AtFrameStart(entities[i]))
    /\ Abs(hero.z - (entities[i].prev_z + entities[i].height_in_tiles)) <= TOLERANCE

\* C16: if at the start of the frame the hero rests on a solid, visible,
\* non-grabbed entity that moved by a delta during the frame and still
\* overlaps the hero's footprint, the carry propagator adds exactly that delta
\* to the hero's position, also for vertical deltas above 1/16 tile.
C16_HeroFollowsPlatform ==
    [][CarryStep =>
          \A i \in 1..Len(entities) :
              (/\ RestedOn(i)
               /\ get_position_delta(entities[i]) # <<0, 0, 0>>
               /\ UnderHeroFootprint(hero, entities[i]))
              => Position(hero') =
                     Plus(Position(hero), get_position_delta(entities[i]))]_vars

\* footprints a and b overlap on the ground plane
FootprintsOverlap(a, b) ==
    /\ StrictOverlap(FootLoX(a), FootHiX(a), FootLoX(b), FootHiX(b))
    /\ StrictOverlap(FootLoY(a), FootHiY(a), FootLoY(b), FootHiY(b))

\* entity j's footprint overlaps entity i's own footprint, j's footprint being
\* taken displaced by the entity offset, as the propagator compares it, or at
\* its stored position
Beneath(i, j) ==
    /\ j # i
    /\ \/ FootprintsOverlap(EntityBBox(entities[i]), EntityFoot(j))
       \/ FootprintsOverlap(EntityBBox(entities[i]), EntityBBox(entities[j]))

\* C17: in the entity pass an entity is moved only by the delta of a solid,
\* visible entity whose footprint overlaps its own and whose top is at or
\* below its foot; an entity elsewhere with the same top height, or one that
\* is not solid or not visible, never moves it, whatever the list order.
C17_MovedOnlyBySurfaceBeneath ==
    [][CarryStep =>
          \A i \in 1..Len(entities) :
              (i # hero.grabbed_entity
               /\ Position(entities'[i]) # Position(entities[i]))
              => \E j \in 1..Len(entities) :
                    /\ Beneath(i, j)
                    /\ entities[j].solid
                    /\ entities[j].visible
                    /\ EntityTop(j) <= entities[i].z + TOLERANCE
                    /\ Position(entities'[i]) =
                           Plus(Position(entities[i]),
                                get_position_delta(entities[j]))]_vars

\* entity i floats: its foot is more than the tolerance above the top of every
\* entity overlapping its footprint, now and when the frame started
FloatsAboveAll(i) ==
    \A j \in 1..Len(entities) :
        /\ Beneath(i, j) => entities[i].z > EntityTop(j) + TOLERANCE
        /\ (/\ j # i
            /\ StrictOverlap(FootLoX(AtFrameStart(entities[i])),
                             FootHiX(AtFrameStart(entities[i])),
                             FootLoX(Shifted(AtFrameStart(entities[j]), -ENTITY_OFFSET)),
                             FootHiX(Shifted(AtFrameStart(entities[j]), -ENTITY_OFFSET)))
            /\ StrictOverlap(FootLoY(AtFrameStart(entities[i])),
                             FootHiY(AtFrameStart(entities[i])),
                             FootLoY(Shifted(AtFrameStart(entities[j]), -ENTITY_OFFSET)),
                             FootHiY(Shifted(AtFrameStart(entities[j]), -ENTITY_OFFSET))))
           => entities[i].prev_z >
                  entities[j].prev_z + entities[j].height_in_tiles + TOLERANCE

\* C18: an entity that floats more than the tolerance above every entity
\* overlapping its footprint, at the start of the frame and at the call, is not
\* moved by update_carried_positions, even when an overlapping entity below it
\* moved in that frame.
C18_FloatingEntityNotMoved ==
    [][CarryStep =>
          \A i \in 1..Len(entities) :
              (i # hero.grabbed_entity /\ FloatsAboveAll(i))
              => Position(entities'[i]) = Position(entities[i])]_vars

\* the grabbed entity is directly above hero h: same x and y, z higher by the
\* hero's height as Hero.update_grabbed_entity_position measures it
DirectlyAbove(h, ents) ==
    /\ ents[h.grabbed_entity].x = h.x
    /\ ents[h.grabbed_entity].y = h.y
    /\ ents[h.grabbed_entity].z = h.z + HERO_HEIGHT * TILE_H * U

\* C19: when the hero carries an entity that is directly above it, the entity
\* is directly above the hero after update_carried_positions returns, also when
\* the hero was carried by a moving platform in that call.
C19_GrabbedStaysAboveHero ==
    [][(CarryStep /\ hero.grabbed_entity # None /\ DirectlyAbove(hero, entities))
          => DirectlyAbove(hero', entities')]_vars

AllAtRest ==
    /\ PrevPosition(hero) = Position(hero)
    /\ \A i \in 1..Len(entities) : PrevPosition(entities[i]) = Position(entities[i])

\* C20: when update_carried_positions returns, the previous-frame position of
\* the hero and of every entity equals its current position, and an
\* immediately repeated call changes no position.
C20_FrameClosed ==
    [][CarryStep =>
          /\ AllAtRest'
          /\ (pc = "update_carried_positions") => NoPositionChanges]_vars

\* the call has closed a frame in which the platform carried the hero sideways
C20_Witness ==
    /\ pc = "update_carried_positions"
    /\ hero.x = MoveStart + 4
    /\ AllAtRest
    /\ \E i \in 1..Len(entities) :
          entities[i] = update_prev_position(
                            set_world_pos(Platform, Platform.x + 4, Platform.y, Platform.z))

----------------------------------------------------------------------------
(* Room data: what Room.load(k) reads for the rooms of the warp and frame  *)
(* specifications                                                          *)

\* 14x13 room whose walkable tiles are the corridor (9..12, 11)
CorridorCells == [y \in 0..12 |-> [x \in 0..13 |-> IF y = 11 /\ x >= 9 /\ x <= 12 THEN HeightmapCell(0, 0) ELSE HeightmapCell(0, 4)]]

\* room 1 to room 2: rectangle (10, 10, 2, 2) in room 1, (2, 2, 2, 2) in room 2
ExampleWarp == Warp(1, 2, 10, 10, 2, 2, 2, 2)
\* the same two rectangles written with the 12-tile offset of the entity data
OffsetExampleWarp == Warp(1, 2, 22, 22, 14, 14, 2, 2)
\* rectangles whose numbers, less 12, hold the footprint centre (176, 184)
\* and (192, 184) that the hero has on entering tiles (11, 11) and (12, 11)
PixelWarp == Warp(1, 2, 188, 196, 2, 2, 2, 2)
RaftWarp == Warp(1, 168, 204, 196, 2, 2, 2, 2)
\* room 3 to room 2: holds the footprint centre (13, 13)
StartWarp == Warp(3, 2, 25, 25, 2, 2, 1, 1)

\* room 3: a three-tile raft whose compared footprint lies under the hero at
\* (MoveStart, MoveStart) for collision.py and for game.py, and a crate on it
Raft == Entity(Stored(MoveStart), Stored(MoveStart), 0, 3 * U, U, TRUE, TRUE)
RaftCrate == Entity(MoveStart + 2 * U, MoveStart, U, U, U, TRUE, TRUE)

\* an entity over the tile on which RaftWarp puts the hero in room 168
RaftEntity == Entity(Stored(191 * TILE_H * U), Stored(185 * TILE_H * U), 0, U, U, TRUE, TRUE)

RoomData(cls, ents, warps, fall, z_end) == [cells |-> cls, entities |-> ents, warps |-> warps, WarpFallDestination |-> fall, RoomZEnd |-> z_end]

RoomNumbers == {1, 2, 3, 168}

Rooms ==
    [k \in RoomNumbers |->
        IF k = 1 THEN RoomData(CorridorCells, <<>>, <<ExampleWarp, OffsetExampleWarp, PixelWarp, RaftWarp>>, NO_FALL, 0)
        ELSE IF k = 2 THEN RoomData(FlatCells(4, 4), <<>>, <<ExampleWarp, OffsetExampleWarp, PixelWarp, StartWarp>>, 1, 1)
        ELSE IF k = 3 THEN RoomData(FlatCells(2, 2), <<Raft, RaftCrate>>, <<StartWarp>>, NO_FALL, 0)
        ELSE RoomData(FlatCells(2, 2), <<RaftEntity>>, <<RaftWarp>>, NO_FALL, 0)]

----------------------------------------------------------------------------
(* Gameplay frames: the calls of Game.run in gameplay mode, in the order   *)
(* of the loop body, starting in room 3                                    *)

MaxFrames == 2

\* the calls of the gameplay branch that touch the simulation, in loop order
FrameOrder_resolver_first == <<"handle_hero_movement", "apply_gravity", "handle_jump", "check_action", "update_carried_positions", "check_warp_collision", "check_fall", "entity_scripts", "update_fade">>

FrameOrder == <<"apply_gravity", "handle_hero_movement", "handle_jump", "check_action", "check_warp_collision", "check_fall", "update_carried_positions", "entity_scripts", "update_fade">>

Pos(name) == CHOOSE k \in 1..Len(FrameOrder) : FrameOrder[k] = name

\* the loop is about to make the call
Turn(name) ==
    IF Pos(name) = 1
    THEN pc \in {"init", FrameOrder[Len(FrameOrder)]} /\ frame.n < MaxFrames
    ELSE pc = FrameOrder[Pos(name) - 1]

\* the frame record after the calls named in the sequence
Logged(names) ==
    IF Pos(names[1]) = 1
    THEN [frame EXCEPT !.n = @ + 1, !.log = names]
    ELSE [frame EXCEPT !.log = @ \o names]

FrameKeys == {{}, {"RIGHT"}}
FrameOrientations == {"RIGHT", "DOWN"}
FrameMs == {250}
\* one step of a running movement command of entity 1: none, MoveRelative
\* by (dx, dy), MoveUpRelative by dz
ScriptSteps == {<<"none", 0, 0, 0>>, <<"MoveRelative", 4, 0, 0>>, <<"MoveUpRelative", 0, 0, 4>>}

InitFrame ==
    /\ pc = "init"
    /\ IdlePred
    /\ game = Game(3)
    /\ cells = Rooms[3].cells
    /\ entities = Rooms[3].entities
    /\ \E x \in {MoveStart, MoveStart + 2 * U}, z \in {0, U} :
          hero = [Hero(x, MoveStart, z) EXCEPT !.touch_ground = TRUE]
    /\ move_ret = IdleMove
    /\ notified = None
    /\ warp_ret = NoWarpRet
    /\ place_ret = NoPlaceRet
    /\ script = NoScript
    /\ frame = NoFrame

FrameApplyGravity ==
    /\ Turn("apply_gravity")
    /\ LET r == apply_gravity(hero, entities, cells, TILE_H)
       IN  /\ hero' = r.hero
           /\ entities' = r.entities
           /\ notified' = r.notified
    /\ pc' = "apply_gravity"
    /\ frame' = Logged(<<"apply_gravity">>)
    /\ UNCHANGED <<cells, move_ret, game, warp_ret, place_ret, script>>
    /\ UNCHANGED predVars

FrameHandleHeroMovement ==
    /\ Turn("handle_hero_movement")
    /\ \E keys \in FrameKeys :
          LET r == handle_hero_movement(hero, entities, cells, keys, FALSE, TILE_H)
          IN  /\ hero' = r.hero
              /\ entities' = r.entities
              /\ move_ret' = r.move_ret
    /\ pc' = "handle_hero_movement"
    /\ frame' = Logged(<<"handle_hero_movement">>)
    /\ UNCHANGED <<cells, notified, game, warp_ret, place_ret, script>>
    /\ UNCHANGED predVars

FrameHandleJump ==
    /\ Turn("handle_jump")
    /\ \E space \in BOOLEAN :
          LET r == handle_jump(hero, entities, space, TILE_H)
          IN  /\ hero' = r.hero
              /\ entities' = r.entities
    /\ pc' = "handle_jump"
    /\ frame' = Logged(<<"handle_jump">>)
    /\ UNCHANGED <<cells, move_ret, notified, game, warp_ret, place_ret, script>>
    /\ UNCHANGED predVars

FrameCheckAction ==
    /\ Turn("check_action")
    /\ \E a_just_pressed \in BOOLEAN, orientation \in FrameOrientations :
          LET r == check_action(hero, entities, cells, a_just_pressed, orientation, TILE_H)
          IN  /\ hero' = r.hero
              /\ entities' = r.entities
    /\ pc' = "check_action"
    /\ frame' = Logged(<<"check_action">>)
    /\ UNCHANGED <<cells, move_ret, notified, game, warp_ret, place_ret, script>>
    /\ UNCHANGED predVars

FrameCheckWarpCollision ==
    /\ Turn("check_warp_collision")
    /\ LET r == check_warp_collision(game, hero, Rooms[game.room_number].warps, TILE_H)
       IN  /\ game' = r.game
           /\ warp_ret' = [ret |-> r.ret, checked |-> r.checked, tile |-> r.tile, warp |-> r.warp]
    /\ pc' = "check_warp_collision"
    /\ frame' = Logged(<<"check_warp_collision">>)
    /\ UNCHANGED <<hero, entities, cells, move_ret, notified, place_ret, script>>
    /\ UNCHANGED predVars

FrameCheckFall ==
    /\ Turn("check_fall")
    /\ LET r == check_fall(game, hero, Rooms[game.room_number], TILE_H)
       IN  /\ game' = r.game
           /\ hero' = r.hero
    /\ pc' = "check_fall"
    /\ frame' = Logged(<<"check_fall">>)
    /\ UNCHANGED <<entities, cells, move_ret, notified, warp_ret, place_ret, script>>
    /\ UNCHANGED predVars

FrameUpdateCarriedPositions ==
    /\ Turn("update_carried_positions")
    /\ LET r == update_carried_positions(hero, entities, TILE_H, TILE_H)
       IN  /\ hero' = r.hero
           /\ entities' = r.entities
    /\ pc' = "update_carried_positions"
    /\ frame' = Logged(<<"update_carried_positions">>)
    /\ UNCHANGED <<cells, move_ret, notified, game, warp_ret, place_ret, script>>
    /\ UNCHANGED predVars

\* entity.script_handler.update() for the entities whose script is running
FrameEntityScripts ==
    /\ Turn("entity_scripts")
    /\ \E step \in ScriptSteps :
          IF entities = <<>> \/ step[1] = "none"
          THEN /\ UNCHANGED <<hero, entities>>
               /\ frame' = Logged(<<"entity_scripts">>)
          ELSE IF step[1] = "MoveRelative"
          THEN LET r == cmd_move_relative(hero, entities, 1, step[2], step[3], TILE_H, TILE_H)
               IN  /\ hero' = r.hero
                   /\ entities' = r.entities
                   /\ frame' = Logged(<<"entity_scripts", "update_carried_positions">>)
          ELSE /\ entities' = cmd_move_up_relative(entities, 1, step[4])
               /\ UNCHANGED hero
               /\ frame' = Logged(<<"entity_scripts">>)
    /\ pc' = "entity_scripts"
    /\ UNCHANGED <<cells, move_ret, notified, game, warp_ret, place_ret, script>>
    /\ UNCHANGED predVars

FrameUpdateFade ==
    /\ Turn("update_fade")
    /\ \E ms \in FrameMs :
          LET r == update_fade(game, hero, entities, cells, notified, ms, Rooms, TILE_H)
          IN  /\ game' = r.game
              /\ hero' = r.hero
              /\ entities' = r.entities
              /\ cells' = r.cells
              /\ notified' = r.notified
    /\ pc' = "update_fade"
    /\ frame' = Logged(<<"update_fade">>)
    /\ UNCHANGED <<move_ret, warp_ret, place_ret, script>>
    /\ UNCHANGED predVars

NextFrame ==
    \/ FrameApplyGravity
    \/ FrameHandleHeroMovement
    \/ FrameHandleJump
    \/ FrameCheckAction
    \/ FrameCheckWarpCollision
    \/ FrameCheckFall
    \/ FrameUpdateCarriedPositions
    \/ FrameEntityScripts
    \/ FrameUpdateFade

SpecFrame == InitFrame /\ [][NextFrame]_vars

----------------------------------------------------------------------------
(* Vocabulary of the claims about the frame                                *)

\* how many times update_carried_positions has run in the current frame
PropagatorRuns == Cardinality({k \in 1..Len(frame.log) : frame.log[k] = "update_carried_positions"})

\* the loop body has made its last call of the frame
FrameEnded == pc = "update_fade" /\ frame.n >= 1

\* the step ran update_carried_positions (from the loop or from a script)
RanPropagator ==
    /\ frame'.n = frame.n
    /\ Len(frame'.log) > Len(frame.log)
    /\ frame'.log[Len(frame'.log)] = "update_carried_positions"

\* the step changed the previous-frame position of an actor of the room
PrevChanged ==
    /\ game'.room_number = game.room_number
    /\ \/ PrevPosition(hero') # PrevPosition(hero)
       \/ \E i \in 1..Len(entities) : PrevPosition(entities'[i]) # PrevPosition(entities[i])

----------------------------------------------------------------------------
(* A three-level stack under the carry propagator: a script moves the      *)
(* lowest entity once, then update_carried_positions runs frame after frame *)

MaxChainFrames == 3

ChainBases == {20 * U, 21 * U}
ChainDeltas == {<<4, 0, 0>>, <<0, 4, 0>>, <<-4, 0, 0>>, <<4, 4, 0>>}

\* level 0 is the moved entity, level 1 rests on it and level 2 on level 1:
\* each level's own footprint lies over the compared footprint of the level
\* below and its foot is at that level's top
ChainLevel(base, k) == Entity(base + (2 - k) * ENTITY_OFFSET, base + (2 - k) * ENTITY_OFFSET, k * U, U, U, TRUE, TRUE)

\* the room's entity list in each of its six orders
ChainOrders == {o \in [1..3 -> 0..2] : \A a, b \in 1..3 : o[a] = o[b] => a = b}

InitChain ==
    /\ pc = "init"
    /\ IdlePred
    /\ cells = FlatCells(2, 2)
    /\ hero = Hero(0, 0, 0)
    /\ \E base \in ChainBases, o \in ChainOrders :
          entities = [i \in 1..3 |-> ChainLevel(base, o[i])]
    /\ move_ret = IdleMove
    /\ notified = None
    /\ IdleScene

\* a script sets the position of the lowest entity (set_world_pos only)
RootScriptMove ==
    /\ pc = "init"
    /\ \E i \in 1..Len(entities), d \in ChainDeltas :
          /\ entities[i].z = 0
          /\ entities' = [entities EXCEPT ![i] = set_world_pos(@, @.x + d[1], @.y + d[2], @.z + d[3])]
    /\ pc' = "entity_script"
    /\ UNCHANGED <<hero, cells, move_ret, notified>>
    /\ UNCHANGED predVars
    /\ UNCHANGED sceneVars

\* the propagator call of one more frame
ChainFrame ==
    /\ pc \in {"entity_script", "update_carried_positions"}
    /\ frame.n < MaxChainFrames
    /\ LET r == update_carried_positions(hero, entities, TILE_H, TILE_H)
       IN  /\ hero' = r.hero
           /\ entities' = r.entities
    /\ pc' = "update_carried_positions"
    /\ frame' = [frame EXCEPT !.n = @ + 1, !.log = <<"update_carried_positions">>]
    /\ UNCHANGED <<cells, move_ret, notified, game, warp_ret, place_ret, script>>
    /\ UNCHANGED predVars

NextChain == RootScriptMove \/ ChainFrame

SpecChain == InitChain /\ [][NextChain]_vars

----------------------------------------------------------------------------
(* Vocabulary of the claim about support chains                            *)

\* the entity of the stack whose foot is at level k
AtLevel(k) == CHOOSE i \in 1..Len(entities) : entities[i].z = k * U

\* entity i lies where it lay relative to entity j before the move: with
\* its footprint over j's compared footprint
StillOver(i, j) ==
    /\ entities[j].x - entities[i].x = ENTITY_OFFSET
    /\ entities[j].y - entities[i].y = ENTITY_OFFSET

\* the lowest entity has been moved off its place
RootMoved == \A base \in ChainBases : entities[AtLevel(0)] # ChainLevel(base, 0) /\ PrevPosition(entities[AtLevel(0)]) = Position(entities[AtLevel(0)])

\* C22: in a stack A on B on C, when C moves by d in one frame and stops, B
\* has been displaced by d when that frame's propagator call returns and A
\* when the next frame's call returns at the latest, whatever the order of
\* the three in the entity list.
C22_ChainFollowsWithinOneFrame ==
    /\ (pc = "update_carried_positions" /\ frame.n >= 1) => StillOver(AtLevel(1), AtLevel(0))
    /\ (pc = "update_carried_positions" /\ frame.n >= 2) => StillOver(AtLevel(2), AtLevel(1))

----------------------------------------------------------------------------
(* Warps and fades: the hero walks the corridor of room 1 while            *)
(* check_warp_collision, check_fall and update_fade are called             *)

\* the hero's start: y on row 11, x in tiles 9 and 10, in game.py's units
WarpStarts == {<<150 * U, 176 * U>>, <<166 * U, 176 * U>>}
WarpKeys == {{"LEFT"}, {"RIGHT"}}
WarpMs == {100, 250}

InitWarp ==
    /\ pc = "init"
    /\ IdlePred
    /\ game = Game(1)
    /\ cells = Rooms[1].cells
    /\ entities = Rooms[1].entities
    /\ \E p \in WarpStarts : hero = [Hero(p[1], p[2], 0) EXCEPT !.touch_ground = TRUE]
    /\ move_ret = IdleMove
    /\ notified = None
    /\ warp_ret = NoWarpRet
    /\ place_ret = NoPlaceRet
    /\ script = NoScript
    /\ frame = NoFrame

WarpHeroMovement ==
    /\ \E keys \in WarpKeys :
          LET r == handle_hero_movement(hero, entities, cells, keys, FALSE, TILE_H)
          IN  /\ hero' = r.hero
              /\ entities' = r.entities
              /\ move_ret' = r.move_ret
    /\ pc' = "handle_hero_movement"
    /\ UNCHANGED <<cells, notified, game, warp_ret, place_ret, script, frame>>
    /\ UNCHANGED predVars

CheckWarpCollision ==
    /\ LET r == check_warp_collision(game, hero, Rooms[game.room_number].warps, TILE_H)
       IN  /\ game' = r.game
           /\ warp_ret' = [ret |-> r.ret, checked |-> r.checked, tile |-> r.tile, warp |-> r.warp]
    /\ pc' = "check_warp_collision"
    /\ UNCHANGED <<hero, entities, cells, move_ret, notified, place_ret, script, frame>>
    /\ UNCHANGED predVars

CheckFall ==
    /\ LET r == check_fall(game, hero, Rooms[game.room_number], TILE_H)
       IN  /\ game' = r.game
           /\ hero' = r.hero
    /\ pc' = "check_fall"
    /\ UNCHANGED <<entities, cells, move_ret, notified, warp_ret, place_ret, script, frame>>
    /\ UNCHANGED predVars

UpdateFade ==
    /\ \E ms \in WarpMs :
          LET r == update_fade(game, hero, entities, cells, notified, ms, Rooms, TILE_H)
          IN  /\ game' = r.game
              /\ hero' = r.hero
              /\ entities' = r.entities
              /\ cells' = r.cells
              /\ notified' = r.notified
    /\ pc' = "update_fade"
    /\ UNCHANGED <<move_ret, warp_ret, place_ret, script, frame>>
    /\ UNCHANGED predVars

NextWarp == WarpHeroMovement \/ CheckWarpCollision \/ CheckFall \/ UpdateFade

SpecWarp == InitWarp /\ [][NextWarp]_vars

----------------------------------------------------------------------------
(* Vocabulary of the claims about warps and fades                          *)

RoomWarps == Rooms[game.room_number].warps
PrevTile == <<game.prev_hero_tile_x, game.prev_hero_tile_y>>
HeroTile == current_tile(hero, TILE_H)

\* the step is a call of check_warp_collision
WarpCheckStep == pc' = "check_warp_collision" /\ hero' = hero

\* C23: the warp check is edge-triggered.  A call made while the hero's tile
\* is the recorded one looks at no warp, fires no trigger and changes
\* nothing; every call leaves the hero's tile recorded; and the record only
\* ever changes to the tile the hero is on.  So after the check has been
\* evaluated for tile T no trigger fires while the hero's tile remains T.
C23_EdgeTriggered ==
    [][/\ (WarpCheckStep /\ HeroTile = PrevTile) =>
              (~warp_ret'.ret /\ ~warp_ret'.checked /\ game' = game)
       /\ WarpCheckStep => PrevTile' = HeroTile
       /\ (PrevTile' # PrevTile) => PrevTile' = HeroTile']_vars

\* the hero stands inside the rectangle of a warp of room 1 whose tile it
\* had entered from the other side; the check has been called, and no fade
\* has started
C23_Witness ==
    /\ pc = "check_warp_collision"
    /\ game.room_number = 1
    /\ colliding_warps(game, hero, RoomWarps, TILE_H) # {}
    /\ ~warp_ret.checked
    /\ ~warp_ret.ret
    /\ game.fade_mode = "None"

\* the rectangle of a warp on the side of a room, read as tile numbers (off
\* = 0) or as tile numbers carrying the 12-tile offset of the room data
SideX(w, room) == IF w.room1 = room THEN w.x ELSE w.x2
SideY(w, room) == IF w.room1 = room THEN w.y ELSE w.y2
RectContains(w, room, t, off) ==
    /\ SideX(w, room) - off <= t[1] /\ t[1] < SideX(w, room) - off + w.width
    /\ SideY(w, room) - off <= t[2] /\ t[2] < SideY(w, room) - off + w.height

SomeRectContains(t, off) == \E k \in 1..Len(RoomWarps) : RectContains(RoomWarps[k], game.room_number, t, off)

\* C24: when the hero's centre tile has changed to t, a warp fires exactly if
\* the rectangle of a warp of the room, on the side of the current room,
\* contains t half-open (either reading of the rectangle's numbers).
C24_FiresIffRectangleContainsTile ==
    (pc = "check_warp_collision" /\ warp_ret.checked) =>
        \/ (warp_ret.ret <=> SomeRectContains(warp_ret.tile, 0))
        \/ (warp_ret.ret <=> SomeRectContains(warp_ret.tile, 12))

\* the step runs do_warp and changes the room; the hero had not left the
\* tile on which the trigger fired
WarpTransition ==
    /\ pc' = "update_fade"
    /\ game'.room_number # game.room_number
    /\ game.fade_callback # <<>>
    /\ game.fade_callback[1].name = "do_warp"

EntryKept == warp_ret.ret /\ warp_ret.tile = HeroTile /\ RoomWarps[warp_ret.warp] = game.fade_callback[1].warp

\* the hero's tile after the transition lies in the destination rectangle,
\* at the offset inside it at which the trigger tile lay in the source one
AtEntryOffset(w, from, to, entry, t) ==
    /\ t[1] - SideX(w, to) = entry[1] - SideX(w, from)
    /\ t[2] - SideY(w, to) = entry[2] - SideY(w, from)

\* C25: the transition puts the hero on the tile of the other room's
\* rectangle that keeps the entry offset, or at least (weaker) on a tile of
\* that rectangle in one of the two readings of its numbers.
C25_DestinationInOtherRectangle ==
    [][(WarpTransition /\ EntryKept) =>
          LET w == game.fade_callback[1].warp
              to == game'.room_number
          IN  \/ AtEntryOffset(w, game.room_number, to, warp_ret.tile, HeroTile')
              \/ RectContains(w, to, HeroTile', 0)
              \/ RectContains(w, to, HeroTile', 12)]_vars

\* C29: a room transition leaves the recorded previous tile equal to the tile
\* under the hero's footprint centre at the destination, so a warp check
\* called next looks at no warp and fires no trigger.
C29_NoImmediateRewarp ==
    [][WarpTransition =>
          /\ PrevTile' = HeroTile'
          /\ ~check_warp_collision(game', hero', Rooms[game'.room_number].warps, TILE_H).checked
          /\ ~check_warp_collision(game', hero', Rooms[game'.room_number].warps, TILE_H).ret]_vars

\* the first warp check after the transition into room 168, whose
\* destination tile is adjusted, has looked at no warp
C29_Witness ==
    /\ pc = "check_warp_collision"
    /\ game.room_number = 168
    /\ game.fade_mode = "in"
    /\ game.fade_alpha = 255
    /\ HeroTile = <<191, 185>>
    /\ ~warp_ret.checked
    /\ ~warp_ret.ret

\* the step calls start_fade: a warp trigger fires or the fall check passes
StartFadeCalled ==
    \/ pc' = "check_warp_collision" /\ hero' = hero /\ warp_ret'.ret
    \/ pc' = "check_fall" /\ hero.z = 0 /\ Rooms[game.room_number].WarpFallDestination # NO_FALL

\* C30: start_fade called while a fade is in progress changes neither the
\* fade mode nor the alpha nor the pending callback, and no more than one
\* callback is ever pending.
C30_StartFadeNoOpWhileFading ==
    [][/\ (StartFadeCalled /\ game.fade_mode # "None") =>
              /\ game'.fade_mode = game.fade_mode
              /\ game'.fade_alpha = game.fade_alpha
              /\ game'.fade_callback = game.fade_callback
              /\ game'.camera_locked = game.camera_locked
       /\ Len(game'.fade_callback) <= 1]_vars

\* the hero walked on into the rectangle of RaftWarp while the fade started
\* by PixelWarp was going out: the trigger fired and the pending callback is
\* still PixelWarp's
C30_Witness ==
    /\ pc = "check_warp_collision"
    /\ warp_ret.ret
    /\ warp_ret.warp = 4
    /\ game.fade_mode = "out"
    /\ game.fade_alpha > 0
    /\ game.fade_callback = <<WarpCallback(PixelWarp, 1, 2)>>

----------------------------------------------------------------------------
(* Placement: can_place_entity_at_position on drawn inputs                 *)

\* a 3 x 3 heightmap: row 0 has heights 0, 2, 3; row 1 an unwalkable cell, a
\* cell of grade 3 and a high cell; row 2 is flat
PlaceCells ==
    [y \in 0..2 |->
        [x \in 0..2 |->
            IF y = 0 THEN HeightmapCell(IF x = 0 THEN 0 ELSE x + 1, 0)
            ELSE IF y = 1 THEN (IF x = 0 THEN HeightmapCell(0, 4)
                                ELSE IF x = 1 THEN HeightmapCell(0, 3)
                                ELSE HeightmapCell(5, 0))
            ELSE HeightmapCell(0, 0)]]

\* candidate coordinates in tiles: -1, -1/2, 0, 1/2, 1, 2, 2 1/2, 3
PlaceCoords == {-U, -(U \div 2), 0, U \div 2, U, 2 * U, 2 * U + U \div 2, 3 * U}
PlaceZs == {0, U}
PlaceHeroZs == {0, U, 3 * U}

\* the entity to place lies on row 2; the other entity is next to it
PlacedEntity == Entity(0, 2 * U, 0, U, U, TRUE, TRUE)
OtherEntity(solid, visible) == Entity(U + U \div 2, 2 * U, 0, U, U, solid, visible)

InitPlace ==
    /\ pc = "init"
    /\ hero = IdleHero
    /\ \E solid \in BOOLEAN, visible \in BOOLEAN :
          entities = <<PlacedEntity, OtherEntity(solid, visible)>>
    /\ cells = PlaceCells
    /\ move_ret = IdleMove
    /\ notified = None
    /\ IdlePred
    /\ IdleScene

(* One call can_place_entity_at_position(hero_z, entities[1], x, y, z,     *)
(* entities, heightmap).                                                   *)
CanPlace ==
    /\ pc' = "can_place_entity_at_position"
    /\ \E hero_z \in PlaceHeroZs, x \in PlaceCoords, y \in PlaceCoords, z \in PlaceZs :
          place_ret' = [hero_z |-> hero_z, entity |-> 1, x |-> x, y |-> y, z |-> z,
                        called |-> TRUE,
                        ret |-> can_place_entity_at_position(hero_z, entities, 1, x, y, z, cells)]
    /\ UNCHANGED <<game, warp_ret, frame, script>>
    /\ UNCHANGED gameVars
    /\ UNCHANGED predVars

NextPlace == CanPlace

SpecPlace == InitPlace /\ [][NextPlace]_vars

\* the four checks, stated on the recorded call
PlaceTile == <<IntTrunc(place_ret.x), IntTrunc(place_ret.y)>>
PlaceTileInGrid == PlaceTile[1] \in DOMAIN cells[0] /\ PlaceTile[2] \in DOMAIN cells
PlaceCell == cells[PlaceTile[2]][PlaceTile[1]]
PlaceCellWalkable == PlaceCell.walkable \in 0..3
PlaceHeightOk == PlaceCell.height * U - place_ret.hero_z <= 2 * U
PlaceVolume == BoundingBox(place_ret.x, place_ret.y, place_ret.z, entities[place_ret.entity].height_in_tiles, entities[place_ret.entity].size_in_tiles)
PlaceBlockers ==
    {o \in 1..Len(entities) :
        /\ o # place_ret.entity
        /\ entities[o].solid
        /\ entities[o].visible
        /\ check_entity_collision_3d(PlaceVolume, EntityBBox(entities[o]))}

PlaceOutsideGrid ==
    \/ place_ret.x < 0
    \/ place_ret.y < 0
    \/ place_ret.x >= get_width(cells) * U
    \/ place_ret.y >= get_height(cells) * U

\* C27: every candidate position outside the grid is rejected, positions
\* with x or y between -1 and 0 included.
C27_OutsideGridRejected ==
    (place_ret.called /\ PlaceOutsideGrid) => ~place_ret.ret

\* position in the frame's log of the first call of the step, 0 when the
\* step has not run in this frame
FirstRun(name) ==
    IF \E k \in 1..Len(frame.log) : frame.log[k] = name
    THEN CHOOSE k \in 1..Len(frame.log) :
            /\ frame.log[k] = name
            /\ \A j \in 1..(k - 1) : frame.log[j] # name
    ELSE 0

\* step a has run in the frame whenever step b has, and ran first
RunsBefore(a, b) == FirstRun(b) > 0 => (FirstRun(a) > 0 /\ FirstRun(a) < FirstRun(b))

\* C28 (as stated): in every frame the horizontal resolver runs first, then
\* gravity, then the carry propagator, then the warp trigger.
C28_ResolverGravityCarryWarp ==
    /\ RunsBefore("handle_hero_movement", "apply_gravity")
    /\ RunsBefore("apply_gravity", "update_carried_positions")
    /\ RunsBefore("update_carried_positions", "check_warp_collision")
    /\ FrameEnded => FirstRun("check_warp_collision") > 0

\* C28 (amended): in every frame gravity runs first, then the horizontal
\* resolver, then the warp trigger, then the carry propagator, one call
\* after the other.
C28_GravityResolverWarpCarry ==
    /\ RunsBefore("apply_gravity", "handle_hero_movement")
    /\ RunsBefore("handle_hero_movement", "check_warp_collision")
    /\ RunsBefore("check_warp_collision", "update_carried_positions")
    /\ FrameEnded => FirstRun("update_carried_positions") > 0
    /\ (frame.n >= 1 /\ Len(frame.log) > 0) => pc = frame.log[Len(frame.log)] \/ pc = "entity_scripts"

\* the second frame has ended with the hero walked off the raft by the input
C28_Witness ==
    /\ FrameEnded
    /\ frame.n = 2
    /\ FirstRun("apply_gravity") = 1
    /\ FirstRun("update_carried_positions") = 7
    /\ hero.x > MoveStart + 2 * U

\* the step is the update_fade call that ends the fade-out
FadeTurnsIn == game.fade_mode = "out" /\ game'.fade_mode = "in"

\* the step has the effect of one run of the pending callback at full black
CallbackRanOnce ==
    /\ game.fade_callback # <<>>
    /\ LET s == run_callback([game EXCEPT !.fade_alpha = 255, !.fade_callback = <<>>], hero, entities, cells, notified, game.fade_callback[1], Rooms, TILE_H)
       IN  /\ game' = [s.game EXCEPT !.fade_mode = "in"]
           /\ hero' = s.hero
           /\ entities' = s.entities
           /\ cells' = s.cells

\* C31: alpha stays within 0..255; the mode only moves none -> out -> in ->
\* none; a callback is pending exactly while the mode is "out"; it runs once,
\* in the update_fade call in which alpha reaches 255 and the mode becomes
\* "in"; the room changes in no other step; and the mode returns to none in
\* the update_fade call in which alpha reaches 0.
C31_FadeCycle ==
    [][/\ game'.fade_alpha \in 0..255
       /\ (game'.fade_mode # game.fade_mode) =>
              <<game.fade_mode, game'.fade_mode>> \in {<<"None", "out">>, <<"out", "in">>, <<"in", "None">>}
       /\ (game'.fade_callback # <<>>) <=> (game'.fade_mode = "out")
       /\ (game'.fade_mode = "out") => game'.fade_alpha < 255
       /\ (game'.fade_mode = "in") => game'.fade_alpha > 0
       /\ FadeTurnsIn => (pc' = "update_fade" /\ game'.fade_alpha = 255 /\ CallbackRanOnce)
       /\ (game'.room_number # game.room_number) => FadeTurnsIn
       /\ (game.fade_mode = "in" /\ game'.fade_mode = "None") =>
              (pc' = "update_fade" /\ game'.fade_alpha = 0)]_vars

\* the callback of PixelWarp has just run at full black: the hero is in room
\* 2, the fade-in is about to start and nothing is pending
C31_Witness ==
    /\ pc = "update_fade"
    /\ game.room_number = 2
    /\ game.fade_mode = "in"
    /\ game.fade_alpha = 255
    /\ game.fade_callback = <<>>

----------------------------------------------------------------------------
(* The warp and fade calls of a gameplay frame, in the order of the loop   *)
(* body, at 60 frames per second                                           *)

\* clock.tick(FPS) with FPS = 60 returns 16 or 17 ms
LoopMs == {16}
LoopKeys == {{}, {"RIGHT"}}

InitLoop ==
    /\ pc = "init"
    /\ IdlePred
    /\ game = Game(1)
    /\ cells = Rooms[1].cells
    /\ entities = Rooms[1].entities
    /\ hero = [Hero(166 * U, 176 * U, 0) EXCEPT !.touch_ground = TRUE]
    /\ move_ret = IdleMove
    /\ notified = None
    /\ IdleSceneRet

LoopHeroMovement ==
    /\ pc \in {"init", "update_fade"}
    /\ \E keys \in LoopKeys :
          LET r == handle_hero_movement(hero, entities, cells, keys, FALSE, TILE_H)
          IN  /\ hero' = r.hero
              /\ entities' = r.entities
              /\ move_ret' = r.move_ret
    /\ pc' = "handle_hero_movement"
    /\ UNCHANGED <<cells, notified, game, warp_ret, place_ret, script, frame>>
    /\ UNCHANGED predVars

LoopCheckWarpCollision == pc = "handle_hero_movement" /\ CheckWarpCollision

LoopCheckFall == pc = "check_warp_collision" /\ CheckFall

LoopUpdateFade ==
    /\ pc = "check_fall"
    /\ \E ms \in LoopMs :
          LET r == update_fade(game, hero, entities, cells, notified, ms, Rooms, TILE_H)
          IN  /\ game' = r.game
              /\ hero' = r.hero
              /\ entities' = r.entities
              /\ cells' = r.cells
              /\ notified' = r.notified
    /\ pc' = "update_fade"
    /\ UNCHANGED <<move_ret, warp_ret, place_ret, script, frame>>
    /\ UNCHANGED predVars

NextLoop == LoopHeroMovement \/ LoopCheckWarpCollision \/ LoopCheckFall \/ LoopUpdateFade

SpecLoop == InitLoop /\ [][NextLoop]_vars

\* the loop runs on: Game.run makes the next call of the frame
FairSpecLoop == SpecLoop /\ WF_vars(NextLoop)

\* check_warp_collision has just returned True for a warp leading to room r
TriggerFiredFor(r) ==
    /\ pc = "check_warp_collision"
    /\ warp_ret.ret
    /\ get_target_room(RoomWarps[warp_ret.warp], game.room_number) = r

\* C32: every warp trigger that fires is eventually followed by the
\* transition to the room the warp leads to.
C32_TriggerLeadsToTransition ==
    \A r \in RoomNumbers : TriggerFiredFor(r) ~> (game.room_number = r)

----------------------------------------------------------------------------
(* Jumping: apply_gravity and handle_jump called in the order of the loop  *)
(* body on drawn states of the jump key                                    *)

\* a 2 x 2 room of height 0 and one of height 1
JumpRooms == {FlatCells(2, 2), [y \in 0..1 |-> [x \in 0..1 |-> HeightmapCell(1, 0)]]}
\* the hero starts on the floor of the room or 5, 7, 30 units of Z above it
JumpStartHeights == {0, 5 * U, 7 * U, 30 * U}

InitJump ==
    /\ pc = "init"
    /\ IdlePred
    /\ IdleScene
    /\ entities = <<>>
    /\ cells \in JumpRooms
    /\ \E above \in JumpStartHeights :
          hero = Hero(MoveStart, MoveStart, cells[0][0].height * TILE_H * U + above)
    /\ move_ret = IdleMove
    /\ notified = None

JumpApplyGravity ==
    /\ pc \in {"init", "handle_jump"}
    /\ LET r == apply_gravity(hero, entities, cells, TILE_H)
       IN  /\ hero' = r.hero
           /\ entities' = r.entities
           /\ notified' = r.notified
    /\ pc' = "apply_gravity"
    /\ UNCHANGED <<cells, move_ret>>
    /\ UNCHANGED predVars
    /\ UNCHANGED sceneVars

JumpHandleJump ==
    /\ pc = "apply_gravity"
    /\ \E space \in BOOLEAN :
          LET r == handle_jump(hero, entities, space, TILE_H)
          IN  /\ hero' = r.hero
              /\ entities' = r.entities
    /\ pc' = "handle_jump"
    /\ UNCHANGED <<cells, move_ret, notified>>
    /\ UNCHANGED predVars
    /\ UNCHANGED sceneVars

NextJump == JumpApplyGravity \/ JumpHandleJump

SpecJump == InitJump /\ [][NextJump]_vars

\* the support surface under the hero, in the Z unit of apply_gravity
JumpSurface == max_surface_height(hero, entities, cells, TILE_H)

\* C34: a jump raises Z by 2 in each handle_jump call while the counter is
\* below HERO_MAX_JUMP, that is in 12 calls and by 24 in all; the next call
\* ends the jump and resets the counter; the counter stays in 0..24 and is
\* non-zero only while is_jumping is true; gravity does not act on a jump.
C34_JumpProfile ==
    [][/\ hero'.current_jump \in 0..HERO_MAX_JUMP
       /\ (hero'.current_jump # 0) => hero'.is_jumping
       /\ hero'.is_jumping => (/\ hero'.current_jump \in {2 * k : k \in 1..12}
                               /\ hero'.z = JumpSurface' + hero'.current_jump * U)
       /\ (pc' = "handle_jump" /\ hero'.is_jumping) =>
              (/\ hero'.z = hero.z + 2 * U
               /\ hero'.current_jump = hero.current_jump + 2)
       /\ (pc' = "handle_jump" /\ hero.is_jumping /\ ~hero'.is_jumping) =>
              (/\ hero.current_jump = HERO_MAX_JUMP
               /\ hero'.current_jump = 0
               /\ hero'.z = hero.z
               /\ hero'.z = JumpSurface' + 24 * U)
       /\ (pc' = "handle_jump" /\ hero.is_jumping /\ hero.current_jump < HERO_MAX_JUMP) => hero'.is_jumping
       /\ (pc' = "apply_gravity" /\ hero.is_jumping) => hero' = hero]_vars

\* the call after the twelfth rising frame has ended the jump, 24 above the
\* floor of the room of height 1
C34_Witness ==
    /\ pc = "handle_jump"
    /\ ~hero.is_jumping
    /\ hero.current_jump = 0
    /\ cells[0][0].height = 1
    /\ hero.z = TILE_H * U + 24 * U

\* the step is a handle_jump call that starts a jump
JumpStarts == pc' = "handle_jump" /\ ~hero.is_jumping /\ hero'.is_jumping

\* the jump starts from a hero that the gravity step of the frame left
\* grounded on its support surface, with no jump in progress
StartsGrounded == JumpStarts => (hero.touch_ground /\ hero.z = JumpSurface)

\* a hero reported grounded when the frame's jump handling is done is not
\* above its support surface
GroundedMeansOnSurface == (pc' = "handle_jump" /\ hero'.touch_ground) => hero'.z <= JumpSurface'

\* C35: a jump starts only from a hero found grounded by the frame's gravity
\* step and not jumping, and a hero reported grounded at the end of a frame
\* is not above its support surface.
C35_JumpOnlyWhenGrounded == [][StartsGrounded /\ GroundedMeansOnSurface]_vars

\* the first part of C35 alone
JumpStartsGroundedOnly == [][StartsGrounded]_vars
----------------------------------------------------------------------------
(* The script engine of one entity: start_script, update once a frame and   *)
(* trigger_condition, over scripts of instant commands, pauses, waits and  *)
(* flow control.                                                           *)

ScriptConditions == {1, 2}
ScriptLists ==
    {<<Command("Freeze", 0), Command("WaitForCondition", 1), Command("Freeze", 0)>>,
     <<Command("WaitForCondition", 1)>>,
     <<Command("WaitForCondition", 2), Command("Pause", 2)>>,
     <<Command("Pause", 2), Command("Freeze", 0)>>,
     <<Command("Freeze", 0), Command("End", 0)>>,
     <<Command("Pause", 2), Command("Loop", 0), Command("Freeze", 0)>>}

\* the entity that owns the script, at rest on a flat room
ScriptedEntity == ScriptEntity(2 * U, 2 * U, 0, 1, "SE")

InitScript ==
    /\ pc = "init"
    /\ hero = Hero(0, 0, 0)
    /\ entities = <<ScriptedEntity>>
    /\ cells = FlatCells(2, 2)
    /\ move_ret = IdleMove
    /\ notified = None
    /\ IdlePred
    /\ game = Game(0)
    /\ IdleSceneRet
    /\ script = NoScript

\* the entity's position when a command begins, and the updates spent in the
\* command the script is at
MaxUpdates == 8
CommandStart ==
    IF script.sh.current_command_state = <<>> THEN <<entities[1].x, entities[1].y>> ELSE script.start
CommandUpdates ==
    IF script.sh.current_command_state = <<>> THEN 1 ELSE Min(script.updates + 1, MaxUpdates)

\* what the model records after update() returned r
Updated(r) ==
    /\ script' = [script EXCEPT !.sh = r.sh,
                                !.executed = r.executed,
                                !.triggered = FALSE,
                                !.waited = @ \/ (r.executed # <<>> /\ r.sh.waiting_for_condition),
                                !.start = IF r.executed = <<>> THEN @ ELSE CommandStart,
                                !.updates = IF r.executed = <<>> THEN @ ELSE CommandUpdates]
    /\ hero' = r.hero
    /\ entities' = r.entities

\* start_script(script_commands, should_loop) on the entity's handler
ScriptStart ==
    /\ pc' = "start_script"
    /\ \E script_commands \in ScriptLists, should_loop \in BOOLEAN :
          script' = IF script.sh.is_running
                    THEN [script EXCEPT !.executed = <<>>, !.triggered = FALSE]
                    ELSE ScriptRecord(start_script(script.sh, script_commands, should_loop),
                                      <<>>, FALSE, should_loop, FALSE, <<0, 0>>, 0)
    /\ UNCHANGED <<game, warp_ret, place_ret, frame>>
    /\ UNCHANGED gameVars
    /\ UNCHANGED predVars

\* entity.script_handler.update()
ScriptUpdate ==
    /\ pc' = "update"
    /\ Updated(update(script.sh, hero, entities, 1, TILE_H, TILE_H))
    /\ UNCHANGED <<cells, move_ret, notified>>
    /\ UNCHANGED <<game, warp_ret, place_ret, frame>>
    /\ UNCHANGED predVars

\* trigger_condition(condition_type)
ScriptTrigger ==
    /\ pc' = "trigger_condition"
    /\ \E condition_type \in ScriptConditions :
          script' = [script EXCEPT !.sh = trigger_condition(@, condition_type),
                                   !.executed = <<>>,
                                   !.triggered = /\ script.sh.waiting_for_condition
                                                 /\ script.sh.wait_condition_type = <<condition_type>>]
    /\ UNCHANGED <<game, warp_ret, place_ret, frame>>
    /\ UNCHANGED gameVars
    /\ UNCHANGED predVars

NextScript ==
    \/ ScriptStart
    \/ ScriptUpdate
    \/ ScriptTrigger

SpecScript == InitScript /\ [][NextScript]_vars

\* the command at 0-based index `index` of the running script
CommandAt(sc, index) == sc.sh.script_commands[index + 1]

\* C36, part 1: while the script waits for a condition, update() executes
\* no command and changes neither the script state nor the entities.
WaitingUpdateIdle ==
    (script.sh.waiting_for_condition /\ pc' = "update") =>
        /\ script'.sh = script.sh
        /\ script'.executed = <<>>
        /\ UNCHANGED <<hero, entities>>

\* C36, part 2: trigger_condition with the awaited type ends the wait and
\* moves to the command after the WaitForCondition.
TriggerEndsWait ==
    (pc' = "trigger_condition" /\ script'.triggered) =>
        /\ CommandAt(script, script.sh.current_command_index).name = "WaitForCondition"
        /\ ~script'.sh.waiting_for_condition
        /\ script'.sh.wait_condition_type = <<>>
        /\ script'.sh.current_command_state = <<>>
        /\ script'.sh.current_command_index = script.sh.current_command_index + 1
        /\ script'.sh.is_running

\* C36, part 3: the update after such a trigger executes that command, when
\* the list has one.
UpdateAfterTrigger ==
    (/\ pc = "trigger_condition"
     /\ script.triggered
     /\ pc' = "update"
     /\ script.sh.current_command_index < Len(script.sh.script_commands)) =>
        script'.executed = <<script.sh.current_command_index>>

\* C36, part 4: trigger_condition with another type, or on a script that is
\* not waiting, changes nothing.
TriggerOtherIdle ==
    (pc' = "trigger_condition" /\ ~script'.triggered) => script'.sh = script.sh

\* C36: a waiting script is left alone by update(); trigger_condition with
\* the awaited type ends the wait and the next update executes the command
\* directly following the WaitForCondition; any other trigger_condition
\* changes nothing.
C36_WaitAndTrigger ==
    [][WaitingUpdateIdle /\ TriggerEndsWait /\ UpdateAfterTrigger /\ TriggerOtherIdle]_vars

\* the Freeze after the WaitForCondition of the first list has been executed
C36_Witness ==
    /\ pc = "update"
    /\ Len(script.sh.script_commands) = 3
    /\ CommandAt(script, 1).name = "WaitForCondition"
    /\ script.executed = <<2>>
    /\ script.waited
    /\ ~script.sh.waiting_for_condition

\* update() finds the running script past its last command
RanPastEnd ==
    /\ pc' = "update"
    /\ script.sh.is_running
    /\ ~script.sh.waiting_for_condition
    /\ script.sh.current_command_index >= Len(script.sh.script_commands)

\* update() restarts the script at command 0 and leaves it running
Restarts ==
    /\ script'.sh.is_running
    /\ script'.sh.current_command_index = 0
    /\ script'.sh.current_command_state = <<>>
    /\ script'.executed = <<>>

\* the step executed an End command
ExecutedEnd ==
    /\ pc' = "update"
    /\ script'.executed # <<>>
    /\ CommandAt(script, script'.executed[1]).name = "End"

C37_StoppedAfterWait ==
    /\ pc = "update"
    /\ script.loop_arg
    /\ script.waited
    /\ ~script.sh.is_running
    /\ script.executed = <<>>

----------------------------------------------------------------------------
(* One movement command of a script: an entity of every speed and facing   *)
(* runs MoveRelative or MoveTimed, one update() a frame.                   *)

MoveSpeeds == 0..3
MoveOrientations == {"NE", "SE", "SW", "NW"}
\* Distance parameters, in 1/16 tile: 0, half a tile, one tile
MoveDistances == {0, U \div 2, U}
MaxTicks == 3
MoveCommands ==
    {Command("MoveRelative", Distance) : Distance \in MoveDistances}
        \cup {Command("MoveTimed", Ticks) : Ticks \in 1..MaxTicks}

InitMoveCmd ==
    /\ pc = "init"
    /\ hero = Hero(0, 0, 0)
    /\ \E speed \in MoveSpeeds, orientation \in MoveOrientations :
          entities = <<ScriptEntity(4 * TILE_H * U, 4 * TILE_H * U, 0, speed, orientation)>>
    /\ cells = FlatCells(2, 2)
    /\ move_ret = IdleMove
    /\ notified = None
    /\ IdlePred
    /\ game = Game(0)
    /\ IdleSceneRet
    /\ script = NoScript

\* start_script([command], False) on the entity's handler
MoveCmdStart ==
    /\ pc = "init"
    /\ pc' = "start_script"
    /\ \E command \in MoveCommands :
          script' = ScriptRecord(start_script(script.sh, <<command>>, FALSE),
                                 <<>>, FALSE, FALSE, FALSE, <<0, 0>>, 0)
    /\ UNCHANGED <<game, warp_ret, place_ret, frame>>
    /\ UNCHANGED gameVars
    /\ UNCHANGED predVars

\* the loop's entity.script_handler.update() for a running script
MoveCmdUpdate ==
    /\ script.sh.is_running
    /\ pc' = "update"
    /\ Updated(update(script.sh, hero, entities, 1, TILE_H, TILE_H))
    /\ UNCHANGED <<cells, move_ret, notified>>
    /\ UNCHANGED <<game, warp_ret, place_ret, frame>>
    /\ UNCHANGED predVars

NextMoveCmd ==
    \/ MoveCmdStart
    \/ MoveCmdUpdate

SpecMoveCmd == InitMoveCmd /\ [][NextMoveCmd]_vars

\* the loop calls update() in every frame
FairSpecMoveCmd == SpecMoveCmd /\ WF_vars(MoveCmdUpdate)

\* the script's only command, its facing vector and its step of speed / 16 tile
TheCommand == script.sh.script_commands[1]
Facing == direction_map(entities[1].orientation)
StepLength == (entities[1].speed * U) \div 16

\* the command is under way / was completed by the last update
CommandRunning(name) ==
    /\ script.sh.is_running
    /\ TheCommand.name = name
    /\ script.sh.current_command_index = 0
CommandCompleted(name) ==
    /\ script.sh.script_commands # <<>>
    /\ TheCommand.name = name
    /\ script.sh.current_command_index = 1

\* start position plus direction * Distance * 2^(speed-1)
MoveRelativeTarget ==
    <<script.start[1] + Facing[1] * speed_multiplied(TheCommand.param, entities[1].speed),
      script.start[2] + Facing[2] * speed_multiplied(TheCommand.param, entities[1].speed)>>

\* C38: for every speed, the default 0 included, and every Distance >= 0 a
\* MoveRelative that has been started completes after finitely many updates
\* with the entity exactly at start + direction * Distance * 2^(speed-1).
C38_MoveRelativeCompletes ==
    CommandRunning("MoveRelative") ~>
        (CommandCompleted("MoveRelative") /\ <<entities[1].x, entities[1].y>> = MoveRelativeTarget)

\* with a speed of at least 1 the command does complete at the target
MoveRelativeCompletesWhenMoving ==
    (CommandRunning("MoveRelative") /\ entities[1].speed >= 1) ~>
        (CommandCompleted("MoveRelative") /\ <<entities[1].x, entities[1].y>> = MoveRelativeTarget)

\* the entity never passes the target along the movement axis
MoveRelativeNeverPasses ==
    (script.sh.script_commands # <<>> /\ TheCommand.name = "MoveRelative" /\ script.updates >= 1) =>
        /\ (MoveRelativeTarget[1] - entities[1].x) * Facing[1] >= 0
        /\ (MoveRelativeTarget[2] - entities[1].y) * Facing[2] >= 0

\* an entity of speed 0 after MaxUpdates updates of a MoveRelative: still at
\* its start, the command still running
MoveRelativeStuck ==
    /\ CommandRunning("MoveRelative")
    /\ entities[1].speed = 0
    /\ script.updates = MaxUpdates
    /\ <<entities[1].x, entities[1].y>> = script.start

\* C39: MoveTimed with Ticks = N reports completion on the N-th update and
\* has then displaced the entity by exactly N steps of speed / 16 tile in
\* its facing direction.
C39_MoveTimedNSteps ==
    (pc = "update" /\ CommandCompleted("MoveTimed")) =>
        /\ script.updates = TheCommand.param
        /\ entities[1].x = script.start[1] + TheCommand.param * StepLength * Facing[1]
        /\ entities[1].y = script.start[2] + TheCommand.param * StepLength * Facing[2]

\* what the command does: completion on the N-th update, N - 1 steps
MoveTimedOneStepShort ==
    (pc = "update" /\ CommandCompleted("MoveTimed")) =>
        /\ script.updates = TheCommand.param
        /\ entities[1].x = script.start[1] + (TheCommand.param - 1) * StepLength * Facing[1]
        /\ entities[1].y = script.start[2] + (TheCommand.param - 1) * StepLength * Facing[2]

\* what the model takes over from the scene update_fade returned
Faded(r) ==
    /\ game' = r.game
    /\ hero' = r.hero
    /\ entities' = r.entities
    /\ cells' = r.cells
    /\ notified' = r.notified

----------------------------------------------------------------------------
(* The fade under the loop's clock: each frame clock.tick gives the frame  *)
(* time, a handler may call start_fade, and update_fade(time_delta) runs.  *)

\* frame times in ms: the shortest positive one, a frame at 60 per second,
\* a slow frame
FadeMs == {1, 16, 250}
FadeTargets == {1, 2}

InitFade ==
    /\ pc = "init"
    /\ IdlePred
    /\ game = Game(1)
    /\ cells = Rooms[1].cells
    /\ entities = Rooms[1].entities
    /\ hero = [Hero(166 * U, 176 * U, 0) EXCEPT !.touch_ground = TRUE]
    /\ move_ret = IdleMove
    /\ notified = None
    /\ IdleSceneRet
    /\ script = NoScript

\* time_delta = self.clock.tick(FPS) / 1000.0
FadeTick ==
    /\ pc \in {"init", "update_fade"}
    /\ \E ms \in FadeMs : frame' = [frame EXCEPT !.time_delta = ms]
    /\ pc' = "tick"
    /\ UNCHANGED <<game, warp_ret, place_ret, script>>
    /\ UNCHANGED gameVars
    /\ UNCHANGED predVars

\* a handler of the frame asks for a transition: start_fade(callback)
FadeStart ==
    /\ pc = "tick"
    /\ \E target \in FadeTargets : game' = start_fade(game, FallCallback(target))
    /\ pc' = "start_fade"
    /\ UNCHANGED <<warp_ret, place_ret, script, frame>>
    /\ UNCHANGED gameVars
    /\ UNCHANGED predVars

\* self.update_fade(time_delta)
FadeUpdate ==
    /\ pc \in {"tick", "start_fade"}
    /\ Faded(update_fade(game, hero, entities, cells, notified, frame.time_delta, Rooms, TILE_H))
    /\ pc' = "update_fade"
    /\ UNCHANGED <<move_ret, warp_ret, place_ret, script, frame>>
    /\ UNCHANGED predVars

NextFade ==
    \/ FadeTick
    \/ FadeStart
    \/ FadeUpdate

SpecFade == InitFade /\ [][NextFade]_vars

\* the loop keeps running: it ticks and updates the fade in every frame
FairSpecFade == SpecFade /\ WF_vars(FadeTick) /\ WF_vars(FadeUpdate)

\* C33: for every sequence of positive frame times a fade that has been
\* started completes: alpha reaches 255 and the callback runs (the fade
\* turns to "in" with no callback pending), and the mode returns to none.
C33_FadeCompletes ==
    /\ (game.fade_mode = "out") ~>
           (game.fade_mode = "in" /\ game.fade_alpha = 255 /\ game.fade_callback = <<>>)
    /\ (game.fade_mode # "None") ~> (game.fade_mode = "None")

\* with frame times of 2 ms or more every started fade completes
FadeCompletesFromTwoMs ==
    (<>[](pc = "update_fade" => frame.time_delta >= 2)) => C33_FadeCompletes

\* a fade-out that has not moved after a frame of 1 ms
FadeOutStalled ==
    /\ pc = "update_fade"
    /\ frame.time_delta = 1
    /\ game.fade_mode = "out"
    /\ game.fade_alpha = 0
    /\ game.fade_callback # <<>>

====
